---- MODULE Spec2Model ----
(***************************************************************************)
(* The pipeline controller AgenticWorkflow.run (orchestrator/workflow.py)  *)
(* and the four stage adapters it drives (agents/planner.py,               *)
(* agents/insight_agent.py, agents/evaluator.py,                           *)
(* agents/creative_generator.py).                                          *)
(*                                                                         *)
(* Python values are encoded as records that carry their Python type in    *)
(* the field "pytype".  A dict is a record with pytype = "dict" whose      *)
(* other fields are its keys, so `k in d` is  k \in DOMAIN d.  A list is   *)
(* [pytype |-> "list", items |-> <<...>>].  Numbers are exact rationals    *)
(* [n, d]; the code computes with binary floats, and the confidences and   *)
(* thresholds drawn below are ones for which the float comparison and the  *)
(* exact one agree.                                                        *)
(***************************************************************************)
EXTENDS Integers, Sequences, FiniteSets, TLC

\* ------------------------------------------------------------------ bounds
\* longest hypothesis list a generation response carries
MaxHyps == 2
\* most low-CTR campaigns the dataset holds
MaxCampaigns == 4

\* --------------------------------------------------------- Python numbers
RECURSIVE GCD(_, _)
GCD(a, b) == IF b = 0 THEN a ELSE GCD(b, a % b)

\* the number n/d, in lowest terms
Num(n, d) == LET g == GCD(n, d) IN [n |-> n \div g, d |-> d \div g]

\* a value where a number is expected but that is none ("high", null)
NotNumber == [n |-> 0, d |-> 0]

IsNumber(r) == r.d > 0

\* a + b; TypeError when either is not a number is the caller's guard
Plus(a, b) == Num(a.n * b.d + b.n * a.d, a.d * b.d)

\* a / k for a positive integer k
Over(a, k) == Num(a.n, a.d * k)

\* a < b
Less(a, b) == a.n * b.d < b.n * a.d

\* a >= b
AtLeast(a, b) == ~Less(a, b)

Zero == Num(0, 1)

\* -------------------------------------------------- Python values, shapes
PyNone == [pytype |-> "NoneType"]

\* a str that is not iterated for its content (an item of a list, a key)
PyStr == [pytype |-> "str"]

PyList(s) == [pytype |-> "list", items |-> s]

\* a non-empty str or dict standing where a list is expected: len() works,
\* iterating yields n str items
PyText(n) == [pytype |-> "str", items |-> [i \in 1..n |-> PyStr]]

EmptyDict == [pytype |-> "dict"]

IsDict(v) == v.pytype = "dict"

\* the keys of a dict
Keys(v) == DOMAIN v \ {"pytype"}

\* d[k] = v
Put(d, k, v) == (k :> v) @@ d

\* del d[k]
Del(d, k) == [kk \in DOMAIN d \ {k} |-> d[kk]]

\* d.setdefault(k, v)
SetDefault(d, k, v) == IF k \in DOMAIN d THEN d ELSE Put(d, k, v)

\* len(v) is defined
HasLen(v) == "items" \in DOMAIN v

PyLen(v) == Len(v.items)

\* bool(v) for the values that stand where a list is expected
Truthy(v) == HasLen(v) /\ PyLen(v) > 0

\* --------------------------------------------------- results of a call
Return(v) == [raised |-> FALSE, val |-> v, err |-> "", calls |-> 0]

Raise(e) == [raised |-> TRUE, val |-> PyNone, err |-> e, calls |-> 0]

\* the same outcome, having issued k generation calls
Calls(r, k) == [r EXCEPT !.calls = k]

\* ------------------------------------------- the generation capability
\* What client.chat.completions.create does: it raises, or returns a text.
\* A text is a JSON body (or text with no JSON in it), possibly inside a code
\* fence, possibly with prose around it, possibly damaged:
\*   "none"     the body is well-formed JSON
\*   "lexical"  single quotes for double quotes, trailing commas
\*   "broken"   not JSON even after those are repaired (cut off, bare keys)
NotJson == [pytype |-> "garbage"]

Response(fence, prose, damage, body) ==
  [raises |-> FALSE, fence |-> fence, prose |-> prose, damage |-> damage,
   body |-> body]

Plain(body) == Response(FALSE, FALSE, "none", body)

CallRaises ==
  [raises |-> TRUE, fence |-> FALSE, prose |-> FALSE, damage |-> "none",
   body |-> NotJson]

\* content.split("```json")[1].split("```")[0].strip(): the fenced part alone
StripFence(r) == IF r.fence THEN [r EXCEPT !.fence = FALSE, !.prose = FALSE] ELSE r

\* json.loads(text): raises on prose around the body, on a damaged body and
\* on text that is no JSON
JsonLoads(r) ==
  IF r.prose \/ r.damage # "none" \/ r.body = NotJson
  THEN Raise("JSONDecodeError")
  ELSE Return(r.body)

\* ------------------------------------------------------------ hypotheses
ConfValues == {Num(2, 10), Num(3, 10), Num(9, 10)}

Hypothesis(c) ==
  [pytype |-> "dict", id |-> "H1", hypothesis |-> "h", confidence |-> c,
   evidence |-> <<"e">>, recommendation |-> "r", category |-> "creative_fatigue"]

\* a hypothesis object without a confidence
NoConfHypothesis == [pytype |-> "dict", hypothesis |-> "h"]

\* what the evaluation stage is asked to add to a hypothesis
Validated(h, c) ==
  Put(Put(Put(h, "confidence", c), "original_confidence", h.confidence),
      "validation", [supports |-> <<"s">>, contradicts |-> <<>>, data_gaps |-> <<>>])

\* h['confidence'] raises KeyError / TypeError, or adding it to a number does
ConfidenceFails(h) ==
  \/ ~IsDict(h)
  \/ "confidence" \notin DOMAIN h
  \/ ~IsNumber(h.confidence)

\* h.get('confidence', 0), for a dict h
GetConfidence(h) == IF "confidence" \in DOMAIN h THEN h.confidence ELSE Zero

RECURSIVE SumSeq(_)
SumSeq(s) == IF s = <<>> THEN Zero ELSE Plus(Head(s), SumSeq(Tail(s)))

\* h.get('confidence', 0) raises AttributeError, or adding it raises TypeError
GetConfidenceFails(h) == ~IsDict(h) \/ ~IsNumber(GetConfidence(h))

\* the exception the first failing item of a generator expression raises
StrictError(h) ==
  IF IsDict(h) /\ "confidence" \notin DOMAIN h THEN "KeyError" ELSE "TypeError"

LenientError(h) == IF ~IsDict(h) THEN "AttributeError" ELSE "TypeError"

\* sum(h['confidence'] for h in hs) / len(hs), for a non-empty list hs
MeanStrict(hs) ==
  IF \E i \in 1..Len(hs) : ConfidenceFails(hs[i])
  THEN LET i == CHOOSE k \in 1..Len(hs) :
                  ConfidenceFails(hs[k]) /\ \A j \in 1..(k-1) : ~ConfidenceFails(hs[j])
       IN Raise(StrictError(hs[i]))
  ELSE Return(Over(SumSeq([i \in 1..Len(hs) |-> hs[i].confidence]), Len(hs)))

\* sum(h.get('confidence', 0) for h in hs) / len(hs), for a non-empty list hs
MeanLenient(hs) ==
  IF \E i \in 1..Len(hs) : GetConfidenceFails(hs[i])
  THEN LET i == CHOOSE k \in 1..Len(hs) :
                  GetConfidenceFails(hs[k]) /\ \A j \in 1..(k-1) : ~GetConfidenceFails(hs[j])
       IN Raise(LenientError(hs[i]))
  ELSE Return(Over(SumSeq([i \in 1..Len(hs) |-> GetConfidence(hs[i])]), Len(hs)))

\* ------------------------------------------------------- InsightAgent
FallbackHypothesis ==
  [pytype |-> "dict", id |-> "H1",
   hypothesis |-> "Performance metrics require detailed analysis",
   confidence |-> Num(3, 10), evidence |-> <<"Automated analysis unavailable">>,
   recommendation |-> "Manual review recommended", category |-> "technical"]

\* InsightAgent._fallback_insights
FallbackInsights(query) ==
  [pytype |-> "dict", timestamp |-> "now", query |-> query,
   hypotheses |-> PyList(<<FallbackHypothesis>>),
   reasoning |-> "Fallback triggered due to API error"]

\* InsightAgent._extract_json: the parsed value, None when parsing raises
InsightExtractJson(r) ==
  LET p == JsonLoads(StripFence(r)) IN IF p.raised THEN PyNone ELSE p.val

\* a test that takes only None for "no insights"
FalsyOnlyNone(v) == v = PyNone

\* `not insights`: None, {}, [], ""
Falsy(v) ==
  \/ v = PyNone
  \/ IsDict(v) /\ Keys(v) = {}
  \/ HasLen(v) /\ PyLen(v) = 0

\* InsightAgent.generate_insights.  fault: _build_context, which runs before
\* the try, raises on the data summary it is given.
GenerateInsights(query, fault, r) ==
  IF fault THEN Raise("DataFault")
  ELSE Calls(
    IF r.raises THEN Return(FallbackInsights(query))
    ELSE LET insights == InsightExtractJson(r) IN
      IF Falsy(insights) THEN Return(FallbackInsights(query))
      ELSE IF ~IsDict(insights) THEN Return(FallbackInsights(query))
      ELSE LET filled == SetDefault(SetDefault(SetDefault(insights,
                           "timestamp", "now"), "query", query),
                           "hypotheses", PyList(<<>>))
           IN IF ~HasLen(filled.hypotheses)
              THEN Return(FallbackInsights(query))
              ELSE Return(filled), 1)

\* ------------------------------------------------------ EvaluatorAgent
\* an evaluator whose fallback drops the hypotheses it was given
EvaluatorFallbackEmpty(hypotheses) ==
  [pytype |-> "dict", hypotheses |-> PyList(<<>>), overall_confidence |-> Num(1, 2),
   validation_summary |-> "Automated validation failed"]

\* the except branch of EvaluatorAgent.evaluate
EvaluatorFallback(hypotheses) ==
  [pytype |-> "dict", hypotheses |-> hypotheses, overall_confidence |-> Num(1, 2),
   validation_summary |-> "Automated validation failed"]

\* an evaluator that keeps the overall_confidence the response claims
EvaluateParsedTrusting(hypotheses, validated) ==
  IF IsDict(validated) /\ "hypotheses" \in DOMAIN validated
       /\ "overall_confidence" \in DOMAIN validated
  THEN validated ELSE EvaluatorFallback(hypotheses)

\* the try block of EvaluatorAgent.evaluate on the parsed response
EvaluateParsed(hypotheses, validated) ==
  IF ~IsDict(validated) THEN EvaluatorFallback(hypotheses)
  ELSE IF "hypotheses" \in DOMAIN validated /\ ~HasLen(validated.hypotheses)
  THEN EvaluatorFallback(hypotheses)
  ELSE IF "hypotheses" \in DOMAIN validated /\ PyLen(validated.hypotheses) > 0
  THEN LET avg_conf == MeanStrict(validated.hypotheses.items) IN
       IF avg_conf.raised THEN EvaluatorFallback(hypotheses)
       ELSE Put(validated, "overall_confidence", avg_conf.val)
  ELSE IF "overall_confidence" \in DOMAIN validated
          /\ ~IsNumber(validated.overall_confidence)
  THEN EvaluatorFallback(hypotheses)
  ELSE validated

\* EvaluatorAgent.evaluate.  fault: _perform_quantitative_checks, which runs
\* before the try, raises on the data it is given.
Evaluate(hypotheses, fault, r) ==
  IF ~HasLen(hypotheses) THEN Raise("TypeError")
  ELSE IF fault THEN Raise("DataFault")
  ELSE IF \E i \in 1..PyLen(hypotheses) : ~IsDict(hypotheses.items[i])
  THEN Raise("AttributeError")
  ELSE Calls(
    IF r.raises THEN Return(EvaluatorFallback(hypotheses))
    ELSE LET p == JsonLoads(StripFence(r)) IN
      IF p.raised THEN Return(EvaluatorFallback(hypotheses))
      ELSE Return(EvaluateParsed(hypotheses, p.val)), 1)

\* --------------------------------------------------- CreativeGenerator
CampaignNames == <<"c1", "c2", "c3", "c4", "c5", "c6", "c7", "c8">>

\* slice s[:k]
Take(s, k) == SubSeq(s, 1, IF Len(s) < k THEN Len(s) ELSE k)

\* camps[:3] in CreativeGenerator._fallback
FallbackCamps == 3

FallbackCreative ==
  [pytype |-> "dict", headline |-> "Discover Something Better",
   message |-> "Try our new improved offer with better value!",
   cta |-> "Learn More", creative_type |-> "Image",
   rationale |-> "Simple fallback rationale", inspiration |-> "General improvement"]

\* the recommendation _fallback builds for the i-th low-CTR campaign
FallbackRec(i) ==
  [pytype |-> "dict", campaign_name |-> CampaignNames[i], current_ctr |-> Num(1, 100),
   current_message |-> "m", issue |-> "Low CTR",
   new_creatives |-> PyList(<<FallbackCreative>>)]

\* CreativeGenerator._fallback, for nLow low-CTR campaigns
CreativeFallback(nLow) ==
  [pytype |-> "dict", timestamp |-> "now",
   recommendations |-> PyList(Take([i \in 1..nLow |-> FallbackRec(i)], FallbackCamps)),
   note |-> "Fallback recommendations used"]

\* the early return of CreativeGenerator.generate
NoLowCtr ==
  [pytype |-> "dict", timestamp |-> "now", recommendations |-> PyList(<<>>),
   note |-> "No low-CTR campaigns found"]

\* CreativeGenerator._extract_hypotheses raises: insights["hypotheses"] is
\* there and cannot be iterated
ExtractHypothesesFails(insights) ==
  IsDict(insights) /\ Keys(insights) # {} /\ "hypotheses" \in DOMAIN insights
    /\ ~HasLen(insights.hypotheses)

\* the try block of CreativeGenerator.generate on the response text
GenerateParsed(nLow, r) ==
  LET p == JsonLoads(StripFence(r)) IN
  IF p.raised THEN CreativeFallback(nLow)
  ELSE IF ~IsDict(p.val) THEN CreativeFallback(nLow)
  ELSE LET data_obj == SetDefault(SetDefault(p.val, "recommendations", PyList(<<>>)),
                                  "timestamp", "now")
       IN IF ~HasLen(data_obj.recommendations) THEN CreativeFallback(nLow)
          ELSE data_obj

\* generate without the early return for no low-CTR campaigns
GenerateAlwaysCalls(nLow, fault, insights, r) ==
  IF fault THEN Raise("DataFault")
  ELSE IF ExtractHypothesesFails(insights) THEN Raise("TypeError")
  ELSE Calls(IF r.raises THEN Return(CreativeFallback(nLow))
             ELSE Return(GenerateParsed(nLow, r)), 1)

\* CreativeGenerator.generate.  nLow: the low-CTR campaigns of the data.
\* fault: the data selection before the try raises.
Generate(nLow, fault, insights, r) ==
  IF fault THEN Raise("DataFault")
  ELSE IF nLow = 0 THEN Return(NoLowCtr)
  ELSE IF ExtractHypothesesFails(insights) THEN Raise("TypeError")
  ELSE Calls(IF r.raises THEN Return(CreativeFallback(nLow))
             ELSE Return(GenerateParsed(nLow, r)), 1)

\* -------------------------------------------------------- PlannerAgent
\* A query is the sequence of its words.
LowerWord(w) ==
  CASE w = "Improve" -> "improve"
    [] w = "DECLINE" -> "decline"
    [] w = "Drop" -> "drop"
    [] OTHER -> w

\* kw in w, for a lower-case word w
WordHas(w, kw) == w = kw \/ <<w, kw>> \in {<<"dropped", "drop">>, <<"increased", "increase">>}

\* kw in query, the case of the query left as it is
KeywordInExact(kw, query) == \E i \in 1..Len(query) : WordHas(query[i], kw)

\* kw in query.lower()
KeywordIn(kw, query) == \E i \in 1..Len(query) : WordHas(LowerWord(query[i]), kw)

\* a str with its text
PyS(t) == [pytype |-> "str", text |-> t]

IsStr(v) == v.pytype = "str"

IsList(v) == v.pytype = "list"

Task(id, description, data_requirements, expected_output) ==
  [pytype |-> "dict", task_id |-> id, description |-> description,
   data_requirements |-> data_requirements, expected_output |-> expected_output]

TaskIds == <<"T1", "T2", "T3", "T4", "T5", "T6", "T7", "T8">>

\* f"T{i}"
TaskId(i) == TaskIds[i]

\* PlannerAgent._fallback_plan
FallbackPlan(query) ==
  LET diagnose == KeywordIn("drop", query) \/ KeywordIn("decline", query)
                    \/ KeywordIn("decrease", query)
      optimize == KeywordIn("improve", query) \/ KeywordIn("increase", query)
                    \/ KeywordIn("optimize", query)
      intent == IF diagnose THEN "diagnose_drop"
                ELSE IF optimize THEN "optimize_performance"
                ELSE "general_analysis"
      tasks ==
        IF diagnose THEN
          << Task("T1", "Analyze ROAS trend over time",
                  <<"date", "roas", "spend", "revenue">>,
                  "Time-based ROAS pattern showing decline"),
             Task("T2", "Identify underperforming campaigns",
                  <<"campaign_name", "roas", "ctr", "spend">>,
                  "List of campaigns with low ROAS"),
             Task("T3", "Analyze creative performance",
                  <<"creative_type", "creative_message", "ctr", "roas">>,
                  "Creative types and messages causing decline") >>
        ELSE IF optimize THEN
          << Task("T1", "Find top performing campaigns",
                  <<"campaign_name", "roas", "ctr", "spend">>,
                  "Best performing campaigns to scale"),
             Task("T2", "Identify winning creative patterns",
                  <<"creative_type", "creative_message", "ctr">>,
                  "Creative elements that drive performance") >>
        ELSE
          << Task("T1", "Overall performance analysis",
                  <<"spend", "revenue", "roas", "ctr">>, "Summary of key metrics"),
             Task("T2", "Campaign comparison",
                  <<"campaign_name", "roas", "spend">>,
                  "Campaign performance breakdown") >>
  IN [pytype |-> "dict", query |-> query, intent |-> intent, tasks |-> PyList(tasks),
      success_criteria |-> "Provide actionable insights for"]

\* PlannerAgent._extract_json: the fence is stripped, then the text is cut
\* to the span from its first { to its last }.  Of an object that leaves the
\* object alone; of an array holding one object, that object.
PlannerExtractJson(r) ==
  LET t == StripFence(r)
      objs == IF IsList(t.body)
              THEN {i \in 1..PyLen(t.body) : IsDict(t.body.items[i])} ELSE {}
  IN IF IsDict(t.body) THEN [t EXCEPT !.prose = FALSE]
     ELSE IF Cardinality(objs) = 1
     THEN [t EXCEPT !.prose = FALSE, !.body = t.body.items[CHOOSE i \in objs : TRUE]]
     ELSE IF Cardinality(objs) > 1
     THEN [t EXCEPT !.prose = FALSE, !.body = NotJson]
     ELSE t

\* task_objects[:5] in _aggressive_repair
RepairCap == 5

\* the task objects the patterns of _aggressive_repair find: "tasks": [ ... up
\* to the first ], and in that the {...} groups, so the objects before the
\* first one that holds an array
RECURSIVE FlatPrefix(_)
FlatPrefix(items) ==
  IF items = <<>> THEN <<>>
  ELSE LET t == Head(items) IN
    IF IsDict(t) /\ "data_requirements" \in DOMAIN t THEN <<>>
    ELSE IF IsDict(t) /\ Keys(t) # {} THEN <<t>> \o FlatPrefix(Tail(items))
    ELSE FlatPrefix(Tail(items))

\* PlannerAgent._aggressive_repair on the text json.loads refused
AggressiveRepair(t, query) ==
  IF t.damage = "lexical" /\ ~t.prose /\ t.body # NotJson THEN t.body
  ELSE IF t.damage = "broken" /\ IsDict(t.body) /\ "tasks" \in DOMAIN t.body
          /\ IsList(t.body.tasks)
  THEN LET objs == Take(FlatPrefix(t.body.tasks.items), RepairCap)
           tasks == [i \in 1..Len(objs) |-> SetDefault(objs[i], "task_id", TaskId(i))]
       IN IF tasks = <<>> THEN EmptyDict
          ELSE [pytype |-> "dict",
                query |-> IF "query" \in DOMAIN t.body THEN t.body.query ELSE query,
                intent |-> "diagnose_drop", tasks |-> PyList(tasks),
                success_criteria |-> "Identify root cause"]
  ELSE EmptyDict

\* a str task made a task object
StringTask(i, text) ==
  Task(TaskId(i), text, <<"spend", "revenue", "roas">>, "Analysis results")

\* task.get("action", task.get("task", task.get("step", "Analysis task")))
DescriptionOf(task) ==
  IF "action" \in DOMAIN task THEN task.action
  ELSE IF "task" \in DOMAIN task THEN task.task
  ELSE IF "step" \in DOMAIN task THEN task.step
  ELSE "Analysis task"

\* the auto-fixes of one task object at (1-based) position i
FixTask(task, i) ==
  LET t1 == SetDefault(task, "task_id", TaskId(i))
      t2 == SetDefault(t1, "description", DescriptionOf(t1))
      t3 == SetDefault(t2, "data_requirements", <<"spend", "revenue", "roas">>)
  IN SetDefault(t3, "expected_output", "Analysis results")

\* the loop over plan["tasks"] in _is_valid_plan, from position i on
RECURSIVE ValidTasks(_, _)
ValidTasks(items, i) ==
  IF i > Len(items) THEN <<>>
  ELSE LET t == items[i] IN
    IF IsDict(t) THEN <<FixTask(t, i)>> \o ValidTasks(items, i + 1)
    ELSE IF IsStr(t) THEN <<FixTask(StringTask(i, t.text), i)>> \o ValidTasks(items, i + 1)
    ELSE ValidTasks(items, i + 1)

\* the inner loop of the steps->tasks flattening
RECURSIVE FlattenTasks(_, _)
FlattenTasks(ts, all_tasks) ==
  IF ts = <<>> THEN all_tasks
  ELSE LET t == Head(ts) IN
    FlattenTasks(Tail(ts),
      IF IsStr(t) THEN Append(all_tasks, StringTask(Len(all_tasks) + 1, t.text))
      ELSE IF IsDict(t) THEN Append(all_tasks, t)
      ELSE all_tasks)

\* the outer loop of the steps->tasks flattening
RECURSIVE FlattenSteps(_, _)
FlattenSteps(steps, all_tasks) ==
  IF steps = <<>> THEN all_tasks
  ELSE LET s == Head(steps) IN
    FlattenSteps(Tail(steps),
      IF IsDict(s) /\ "tasks" \in DOMAIN s /\ IsList(s.tasks)
      THEN FlattenTasks(s.tasks.items, all_tasks)
      ELSE all_tasks)

\* the "steps" auto-fix of _is_valid_plan
FixSteps(plan) ==
  IF "steps" \in DOMAIN plan /\ IsList(plan.steps) /\ PyLen(plan.steps) > 0
     /\ IsDict(plan.steps.items[1])
  THEN IF "tasks" \in DOMAIN plan.steps.items[1]
       THEN Del(Put(plan, "tasks", PyList(FlattenSteps(plan.steps.items, <<>>))), "steps")
       ELSE Del(Put(plan, "tasks", plan.steps), "steps")
  ELSE plan

\* `"tasks" in step_obj` raises: a step that is null or a number
FixStepsRaises(plan) ==
  /\ "steps" \in DOMAIN plan /\ IsList(plan.steps) /\ PyLen(plan.steps) > 0
  /\ IsDict(plan.steps.items[1]) /\ "tasks" \in DOMAIN plan.steps.items[1]
  /\ \E i \in 1..PyLen(plan.steps) : plan.steps.items[i] = PyNone

\* the "actions" auto-fix of _is_valid_plan
FixActions(plan) ==
  IF "actions" \in DOMAIN plan /\ "tasks" \notin DOMAIN plan
  THEN Del(Put(plan, "tasks", plan.actions), "actions")
  ELSE plan

\* the defaults _is_valid_plan adds to the plan
FixPlanFields(plan) ==
  SetDefault(SetDefault(SetDefault(plan, "query", <<"Analysis", "query">>),
             "intent", "general_analysis"), "success_criteria", "Complete analysis")

\* PlannerAgent._is_valid_plan on a dict that is its own target (no wrapper):
\* [ok, raised, plan], plan being the dict after the fixes done in place
ValidateTarget(plan) ==
  IF FixStepsRaises(plan) THEN [ok |-> FALSE, raised |-> TRUE, plan |-> plan]
  ELSE LET p1 == FixActions(FixSteps(plan)) IN
    IF "tasks" \notin DOMAIN p1 \/ ~IsList(p1.tasks) \/ PyLen(p1.tasks) = 0
    THEN [ok |-> FALSE, raised |-> FALSE, plan |-> p1]
    ELSE LET p2 == Put(p1, "tasks", PyList(ValidTasks(p1.tasks.items, 1))) IN
      IF PyLen(p2.tasks) = 0 THEN [ok |-> FALSE, raised |-> FALSE, plan |-> p2]
      ELSE [ok |-> TRUE, raised |-> FALSE, plan |-> FixPlanFields(p2)]

\* PlannerAgent._is_valid_plan.  The unwrapping of {"plan": {...}} rebinds the
\* local name only: the fixes land in the inner dict, and the caller's object
\* stays the wrapper around it.
IsValidPlan(plan) ==
  IF ~IsDict(plan) THEN [ok |-> FALSE, raised |-> FALSE, plan |-> plan]
  ELSE IF "plan" \in DOMAIN plan /\ IsDict(plan.plan)
  THEN LET v == ValidateTarget(plan.plan) IN [v EXCEPT !.plan = Put(plan, "plan", v.plan)]
  ELSE ValidateTarget(plan)

\* a create_plan that leaves the {"plan": {...}} layer on
UnwrapNever(plan) == plan

\* create_plan, after json.loads: if "plan" in plan and
\* isinstance(plan["plan"], dict): plan = plan["plan"]
Unwrap(plan) ==
  IF "plan" \in DOMAIN plan /\ IsDict(plan.plan) THEN plan.plan ELSE plan

\* PlannerAgent.create_plan after the generation call returned text r
CreatePlanParsed(query, r) ==
  LET cleaned == PlannerExtractJson(r)
      p == JsonLoads(cleaned)
  IN IF ~p.raised /\ ~IsDict(p.val) THEN FallbackPlan(query)
     ELSE LET plan == IF p.raised THEN AggressiveRepair(cleaned, query)
                      ELSE Unwrap(p.val)
              v == IsValidPlan(plan)
          IN IF v.raised \/ ~v.ok THEN FallbackPlan(query)
             ELSE IF "tasks" \notin DOMAIN v.plan \/ ~HasLen(v.plan.tasks)
             THEN FallbackPlan(query)
             ELSE v.plan

\* PlannerAgent.create_plan
CreatePlan(query, r) ==
  Calls(IF r.raises THEN Return(FallbackPlan(query))
        ELSE Return(CreatePlanParsed(query, r)), 1)

\* ------------------------------------------------------ AgenticWorkflow
\* hypotheses[:3], recommendations[:5], new_creatives_list[:2] in _create_report
ReportTopHypotheses == 3
ReportTopCampaigns == 5
ReportTopCreatives == 2

\* d.get('hypotheses', []) and d.get('recommendations', [])
GetList(d, k) == IF k \in DOMAIN d THEN d[k] ELSE PyList(<<>>)

\* rendering one recommendation raises: rec.get on a non-dict, a current_ctr
\* that "{:.2%}" cannot format, creative.get on a non-dict
RecFails(rec) ==
  \/ ~IsDict(rec)
  \/ "current_ctr" \in DOMAIN rec /\ ~IsNumber(rec.current_ctr)
  \/ LET cs == GetList(rec, "new_creatives") IN
       /\ Truthy(cs)
       /\ \E i \in 1..Len(Take(cs.items, ReportTopCreatives)) : ~IsDict(cs.items[i])

RecError(rec) ==
  IF ~IsDict(rec) THEN "AttributeError"
  ELSE IF "current_ctr" \in DOMAIN rec /\ ~IsNumber(rec.current_ctr) THEN "ValueError"
  ELSE "AttributeError"

\* AgenticWorkflow._create_report: the report names what it renders
CreateReport(query, insights, creatives) ==
  LET hypotheses == GetList(insights, "hypotheses")
      recommendations == GetList(creatives, "recommendations")
      top == IF Truthy(hypotheses) THEN Take(hypotheses.items, ReportTopHypotheses)
             ELSE <<>>
      recs == IF Truthy(recommendations)
              THEN Take(recommendations.items, ReportTopCampaigns) ELSE <<>>
  IN IF \E i \in 1..Len(top) : GetConfidenceFails(top[i])
     THEN LET i == CHOOSE k \in 1..Len(top) :
                     GetConfidenceFails(top[k])
                       /\ \A j \in 1..(k-1) : ~GetConfidenceFails(top[j])
          IN Raise(LenientError(top[i]))
     ELSE IF \E i \in 1..Len(recs) : RecFails(recs[i])
     THEN LET i == CHOOSE k \in 1..Len(recs) :
                     RecFails(recs[k]) /\ \A j \in 1..(k-1) : ~RecFails(recs[j])
          IN Raise(RecError(recs[i]))
     ELSE Return([pytype |-> "str", kind |-> "report", query |-> query,
                  findings |-> top, campaigns |-> recs,
                  timestamp |-> IF "timestamp" \in DOMAIN insights
                                THEN insights.timestamp ELSE "N/A"])

\* a failure result that reports a confidence of one half
SafeResultHalf(query, e) ==
  [pytype |-> "dict",
   insights |-> [pytype |-> "dict", hypotheses |-> PyList(<<>>),
                 overall_confidence |-> Num(1, 2), validation_summary |-> e],
   creatives |-> [pytype |-> "dict", recommendations |-> PyList(<<>>)],
   report |-> [pytype |-> "str", kind |-> "Analysis failed", error |-> e],
   plan |-> [pytype |-> "dict", tasks |-> PyList(<<>>), query |-> query]]

\* the result of the except branch of run
SafeResult(query, e) ==
  [pytype |-> "dict",
   insights |-> [pytype |-> "dict", hypotheses |-> PyList(<<>>),
                 overall_confidence |-> Zero, validation_summary |-> e],
   creatives |-> [pytype |-> "dict", recommendations |-> PyList(<<>>)],
   report |-> [pytype |-> "str", kind |-> "Analysis failed", error |-> e],
   plan |-> [pytype |-> "dict", tasks |-> PyList(<<>>), query |-> query]]

\* the result run returns when every step completed
FullResult(validated_insights, creatives, report, plan) ==
  [pytype |-> "dict", insights |-> validated_insights, creatives |-> creatives,
   report |-> report, plan |-> plan]

\* the exceptions `except Exception` catches: all the ones a step raises
ExceptionKinds ==
  {"TypeError", "AttributeError", "KeyError", "ValueError", "JSONDecodeError",
   "DataFault", "StageError"}

\* a run whose except branch is `except KeyError`
CatchesKeyError(e) == e = "KeyError"

\* run's `except Exception as e`
Catches(e) == e \in ExceptionKinds

\* the "FIX" lines after create_plan, with the len() of the log line
EnsurePlan(plan, query) ==
  LET p == IF ~IsDict(plan)
           THEN [pytype |-> "dict", tasks |-> PyList(<<>>), query |-> query]
           ELSE SetDefault(plan, "tasks", PyList(<<>>))
  IN IF HasLen(p.tasks) THEN Return(p) ELSE Raise("TypeError")

\* the "FIX" lines after generate_insights in run, with the len() of the log line
EnsureInsights(insights, query) ==
  LET p == IF ~IsDict(insights)
           THEN [pytype |-> "dict", hypotheses |-> PyList(<<>>), query |-> query]
           ELSE SetDefault(insights, "hypotheses", PyList(<<>>))
  IN IF HasLen(p.hypotheses) THEN Return(p) ELSE Raise("TypeError")

\* the overall_confidence run and _reflection_loop compute when the
\* evaluation carries none
FillOverall(v) ==
  IF "overall_confidence" \in DOMAIN v THEN Return(v)
  ELSE IF ~HasLen(v.hypotheses) \/ PyLen(v.hypotheses) = 0
  THEN Return(Put(v, "overall_confidence", Zero))
  ELSE LET avg_conf == MeanLenient(v.hypotheses.items) IN
       IF avg_conf.raised THEN avg_conf
       ELSE Return(Put(v, "overall_confidence", avg_conf.val))

\* the "FIX" lines after evaluate in run, with the len() of the log line
EnsureValidated(validated, hypotheses) ==
  LET v == IF ~IsDict(validated)
           THEN [pytype |-> "dict", hypotheses |-> hypotheses,
                 overall_confidence |-> Zero, validation_summary |-> "Validation failed"]
           ELSE SetDefault(validated, "hypotheses", hypotheses)
      f == FillOverall(v)
  IN IF f.raised THEN f
     ELSE IF HasLen(f.val.hypotheses) THEN f ELSE Raise("TypeError")

\* the "FIX" lines after generate_insights in _reflection_loop
EnsureRefined(refined) ==
  IF ~IsDict(refined) THEN [pytype |-> "dict", hypotheses |-> PyList(<<>>)]
  ELSE SetDefault(refined, "hypotheses", PyList(<<>>))

\* the "FIX" lines after generate in run, with the len() of the log line
EnsureCreatives(creatives) ==
  LET c == IF ~IsDict(creatives)
           THEN [pytype |-> "dict", recommendations |-> PyList(<<>>)]
           ELSE SetDefault(creatives, "recommendations", PyList(<<>>))
  IN IF HasLen(c.recommendations) THEN Return(c) ELSE Raise("TypeError")

\* the configuration: config['agents'] with the keys it may lack
DefaultMinConfidence == Num(6, 10)

ReflectionEnabled(config) ==
  IF "reflection_enabled" \in DOMAIN config THEN config.reflection_enabled ELSE TRUE

MinConfidence(config) ==
  IF "min_confidence" \in DOMAIN config THEN config.min_confidence
  ELSE DefaultMinConfidence

\* a gate that recomputes the mean whatever the evaluation carries
GateConfidenceRecomputed(insights) == MeanLenient(insights.hypotheses.items)

\* the confidence _needs_reflection compares, for a non-empty hypothesis list
GateConfidence(insights) ==
  IF "overall_confidence" \in DOMAIN insights
  THEN IF IsNumber(insights.overall_confidence)
       THEN Return(insights.overall_confidence) ELSE Raise("TypeError")
  ELSE MeanLenient(insights.hypotheses.items)

\* a gate that also retries at the minimum itself
AtMostMinimum(avg_confidence, min_confidence) == ~Less(min_confidence, avg_confidence)

\* avg_confidence < min_confidence
BelowMinimum(avg_confidence, min_confidence) == Less(avg_confidence, min_confidence)

\* AgenticWorkflow._needs_reflection: [raised, err, retry], retry being the
\* bool it returns
NeedsReflection(config, insights) ==
  IF ~ReflectionEnabled(config) THEN [raised |-> FALSE, err |-> "", retry |-> FALSE]
  ELSE IF ~Truthy(GetList(insights, "hypotheses"))
  THEN [raised |-> FALSE, err |-> "", retry |-> TRUE]
  ELSE LET avg_confidence == GateConfidence(insights) IN
    IF avg_confidence.raised
    THEN [raised |-> TRUE, err |-> avg_confidence.err, retry |-> FALSE]
    ELSE [raised |-> FALSE, err |-> "",
          retry |-> BelowMinimum(avg_confidence.val, MinConfidence(config))]

\* a reflection loop that lets everything but a KeyError through
ReflectionCatchesKeyError(e) == e = "KeyError"

\* _reflection_loop's `except Exception` catches what the pass raises
ReflectionCatches(e) == e \in ExceptionKinds

\* a gate that sends every run into the REFLECT pass
AfterGateAlways(retry) == "reflect"

\* a run that goes from a passed gate straight to the report
AfterGateSkipsCreatives(retry) == IF retry THEN "reflect" ELSE "report"

\* `if self._needs_reflection(...)`: into _reflection_loop, or on to step 5
AfterGate(retry) == IF retry THEN "reflect" ELSE "recommend"

\* a run that asks the gate again once the REFLECT pass returned
AfterReflectionAgain == "gate"

\* where run goes on once _reflection_loop returned: step 5
AfterReflection == "recommend"

\* a reflection loop that keeps the evaluation it was given unless the new
\* one is more confident
ReflectedEvaluationIfBetter(previous_insights, refined_insights, out) ==
  IF out.raised \/ ~IsDict(out.val) THEN previous_insights
  ELSE LET f == FillOverall(SetDefault(out.val, "hypotheses",
                                       refined_insights.hypotheses))
       IN IF f.raised THEN previous_insights
          ELSE IF "overall_confidence" \in DOMAIN previous_insights
                  /\ IsNumber(f.val.overall_confidence)
                  /\ IsNumber(previous_insights.overall_confidence)
                  /\ Less(f.val.overall_confidence, previous_insights.overall_confidence)
          THEN previous_insights
          ELSE f.val

\* what _reflection_loop returns once evaluate, called on the refined
\* hypotheses, ended with outcome out
ReflectedEvaluation(previous_insights, refined_insights, out) ==
  IF out.raised \/ ~IsDict(out.val) THEN previous_insights
  ELSE LET f == FillOverall(SetDefault(out.val, "hypotheses",
                                       refined_insights.hypotheses))
       IN IF f.raised THEN previous_insights ELSE f.val

\* whether that return is the `return previous_insights` of a failed pass
ReflectionFailed(refined_insights, out) ==
  \/ out.raised
  \/ ~IsDict(out.val)
  \/ FillOverall(SetDefault(out.val, "hypotheses", refined_insights.hypotheses)).raised

\* ----------------------------------------------- what the stages are given
\* lists of hypotheses with numeric confidences, highest first
ConfSeqs ==
  {cs \in UNION {[1..k -> ConfValues] : k \in 0..MaxHyps} :
     \A i \in 1..(Len(cs) - 1) : ~Less(cs[i], cs[i + 1])}

GoodLists == {[i \in 1..Len(cs) |-> Hypothesis(cs[i])] : cs \in ConfSeqs}

\* lists an item of which has no usable confidence or is no object
BadLists ==
  {<<NoConfHypothesis>>, <<Hypothesis(NotNumber)>>, <<PyStr>>,
   <<Hypothesis(Num(9, 10)), PyStr>>}

WithHypotheses(h) == [pytype |-> "dict", hypotheses |-> h]

InsightBodies ==
  {WithHypotheses(PyList(l)) : l \in GoodLists \cup BadLists}
    \cup {WithHypotheses(PyText(1)), WithHypotheses(PyNone),
          [pytype |-> "dict", reasoning |-> "r"],
          [pytype |-> "dict", timestamp |-> "ts", query |-> <<"q">>,
           hypotheses |-> PyList(<<Hypothesis(Num(9, 10))>>), reasoning |-> "r"],
          EmptyDict, PyList(<<>>), PyList(<<PyStr>>), PyNone, NotJson}

\* the textual forms one body comes in
Forms(body) ==
  {Plain(body), Response(TRUE, TRUE, "none", body), Response(FALSE, TRUE, "none", body),
   Response(FALSE, FALSE, "lexical", body), Response(TRUE, FALSE, "broken", body)}

\* a response with every member the hypothesis-set contract names
ValidInsightBody ==
  [pytype |-> "dict", timestamp |-> "ts", query |-> <<"q">>,
   hypotheses |-> PyList(<<Hypothesis(Num(9, 10))>>), reasoning |-> "r"]

InsightResponses ==
  {CallRaises} \cup {Plain(b) : b \in InsightBodies}
    \cup Forms(WithHypotheses(PyList(<<Hypothesis(Num(9, 10))>>)))
    \cup Forms(ValidInsightBody)

ValidatedList(l) == [i \in 1..Len(l) |-> Validated(l[i], l[i].confidence)]

\* an evaluation that claims an overall_confidence of 1.0
Claiming(d) == Put(d, "overall_confidence", Num(1, 1))

EvaluatorBodies ==
  {Claiming(WithHypotheses(PyList(ValidatedList(l)))) : l \in GoodLists}
    \cup {WithHypotheses(PyList(l)) : l \in BadLists}
    \cup {WithHypotheses(PyList(<<>>)), WithHypotheses(PyNone), WithHypotheses(PyText(1)),
          EmptyDict, Claiming(EmptyDict), Put(EmptyDict, "overall_confidence", NotNumber),
          PyList(<<>>), PyNone, NotJson}

\* a response with every member the evaluation contract names
ValidEvaluationBody ==
  [pytype |-> "dict", hypotheses |-> PyList(ValidatedList(<<Hypothesis(Num(9, 10))>>)),
   overall_confidence |-> Num(9, 10), validation_summary |-> "s"]

EvaluatorResponses ==
  {CallRaises} \cup {Plain(b) : b \in EvaluatorBodies}
    \cup Forms(Claiming(WithHypotheses(PyList(ValidatedList(<<Hypothesis(Num(9, 10))>>)))))
    \cup Forms(ValidEvaluationBody)

LlmRec(ctr, creatives) ==
  [pytype |-> "dict", campaign_name |-> "c1", current_ctr |-> ctr,
   current_message |-> "m", issue |-> "i", new_creatives |-> PyList(creatives)]

RecLists ==
  {<<>>, <<LlmRec(Num(1, 100), <<FallbackCreative>>)>>,
   <<LlmRec(NotNumber, <<FallbackCreative>>)>>, <<LlmRec(Num(1, 100), <<PyStr>>)>>,
   <<[pytype |-> "dict", campaign_name |-> "c1"]>>, <<PyStr>>}

WithRecommendations(l) == [pytype |-> "dict", recommendations |-> l]

CreativeBodies ==
  {WithRecommendations(PyList(l)) : l \in RecLists}
    \cup {WithRecommendations(PyNone), WithRecommendations(PyText(1)), EmptyDict,
          PyList(<<>>), PyNone, NotJson}

\* a response with every member the creative-set contract names
ValidCreativeBody ==
  [pytype |-> "dict", timestamp |-> "ts",
   recommendations |-> PyList(<<LlmRec(Num(1, 100), <<FallbackCreative>>)>>)]

CreativeResponses ==
  {CallRaises} \cup {Plain(b) : b \in CreativeBodies}
    \cup Forms(WithRecommendations(PyList(<<LlmRec(Num(1, 100), <<FallbackCreative>>)>>)))
    \cup Forms(ValidCreativeBody)

LlmTask == Task("T1", "d", <<"roas">>, "o")

WithTasks(l) == [pytype |-> "dict", tasks |-> l]

\* the plan responses a run is given
RunPlanBodies ==
  {WithTasks(PyList(<<LlmTask>>)),
   [pytype |-> "dict", query |-> <<"q">>, intent |-> "i",
    tasks |-> PyList(<<LlmTask, PyS("s")>>), success_criteria |-> "c"],
   EmptyDict, NotJson}

RunPlanResponses ==
  {CallRaises} \cup {Plain(b) : b \in RunPlanBodies}
    \cup Forms(WithTasks(PyList(<<LlmTask>>)))

RunQueries == {<<"why", "did", "roas", "drop">>, <<"summary">>}

Configs ==
  {EmptyDict,
   [pytype |-> "dict", reflection_enabled |-> TRUE, min_confidence |-> Num(6, 10)],
   [pytype |-> "dict", reflection_enabled |-> FALSE, min_confidence |-> Num(6, 10)],
   [pytype |-> "dict", reflection_enabled |-> TRUE, min_confidence |-> Num(1, 2)],
   [pytype |-> "dict", reflection_enabled |-> FALSE]}

\* what a stage that is not this repository's adapter may do: raise, or
\* return a value of any shape
AnyPlans(q) ==
  {Raise("StageError"), Return(PyNone), Return(EmptyDict), Return(WithTasks(PyNone)),
   Return(FallbackPlan(q))}

AnyInsights ==
  {Raise("StageError"), Return(PyNone), Return(EmptyDict),
   Return(WithHypotheses(PyNone)), Return(WithHypotheses(PyList(<<PyStr>>))),
   Return(WithHypotheses(PyList(<<Hypothesis(NotNumber)>>))),
   Return(WithHypotheses(PyList(<<Hypothesis(Num(9, 10))>>)))}

AnyEvaluations ==
  {Raise("StageError"), Return(PyNone), Return(EmptyDict),
   Return(Put(EmptyDict, "overall_confidence", NotNumber)),
   Return(WithHypotheses(PyNone)),
   Return(Claiming(WithHypotheses(PyList(<<PyStr>>)))),
   Return(Claiming(WithHypotheses(PyList(<<Hypothesis(Num(2, 10))>>)))),
   Return(Put(WithHypotheses(PyList(<<Hypothesis(Num(9, 10))>>)),
              "overall_confidence", Num(2, 10)))}

AnyCreatives ==
  {Raise("StageError"), Return(PyNone), Return(EmptyDict),
   Return(WithRecommendations(PyNone)), Return(WithRecommendations(PyList(<<PyStr>>)))}

\* ------------------------------------------------------------ one run
VARIABLES
  pc,                  \* the step run is at; "done" and "failed" are its two returns
  agents,              \* "code": the repository's adapters; "any": stand-ins;
                       \* "outage": the adapters, every generation call raising
  config,              \* config['agents']
  query,               \* the caller's query
  plan,                \* run's local plan
  insights,            \* run's local insights, live until evaluate consumed it
  validated_insights,  \* run's local validated_insights
  refined_insights,    \* _reflection_loop's local, between its two calls
  creatives,           \* run's local creatives
  result,              \* what run returned
  ran,                 \* how often each stage was invoked
  generations,         \* how many generation calls each adapter issued
  consulted,           \* how often _needs_reflection was called
  signal,              \* what it answered
  reflection,          \* how the REFLECT pass ended
  reevaluation,        \* _reflection_loop's call of evaluate: what it passed and got
  err                  \* the exception run's except branch caught

\* one adapter on one response text, outside a run
VARIABLES
  adapter,             \* the adapter called; "none" during a run
  text,                \* the response text its generation call returns
  given,               \* what it is called with besides: hypotheses, low-CTR campaigns
  normalized,          \* what it returned or raised
  again                \* what create_plan did on the serialization of its own plan

\* main of run.py
VARIABLES
  main_pc,             \* the statement main is at; "idle" when main is not looked at
  columns,             \* the columns of the dataset file
  results,             \* main's local results
  written,             \* the output files main has written
  run_calls,           \* how often main called AgenticWorkflow.run
  caught,              \* the exception main's except branch caught
  exit_status          \* what main returned; -1 while it has not

adapter_vars == <<adapter, text, given, normalized, again>>

main_vars == <<main_pc, columns, results, written, run_calls, caught, exit_status>>

run_vars ==
  <<pc, agents, config, query, plan, insights, validated_insights, refined_insights,
    creatives, result, ran, generations, consulted, signal, reflection, reevaluation,
    err>>

vars == <<run_vars, adapter_vars, main_vars>>

\* no adapter is looked at on its own
NoAdapter ==
  /\ adapter = "none"
  /\ text = PyNone
  /\ given = PyNone
  /\ normalized = PyNone
  /\ again = PyNone

\* main is not looked at
NoMain ==
  /\ main_pc = "idle"
  /\ columns = {}
  /\ results = PyNone
  /\ written = {}
  /\ run_calls = 0
  /\ caught = ""
  /\ exit_status = -1

Stages == {"planner", "data", "insight", "evaluator", "creative", "report"}

Init ==
  /\ pc = "plan"
  /\ agents \in {"code", "any"}
  /\ config \in Configs
  /\ query \in RunQueries
  /\ plan = PyNone
  /\ insights = PyNone
  /\ validated_insights = PyNone
  /\ refined_insights = PyNone
  /\ creatives = PyNone
  /\ result = PyNone
  /\ ran = [s \in Stages |-> 0]
  /\ generations = [s \in Stages |-> 0]
  /\ consulted = 0
  /\ signal = "none"
  /\ reflection = "none"
  /\ reevaluation = PyNone
  /\ err = ""
  /\ NoAdapter
  /\ NoMain

\* stage s was invoked and issued k generation calls
Invoked(s, k) ==
  /\ ran' = [ran EXCEPT ![s] = @ + 1]
  /\ generations' = [generations EXCEPT ![s] = @ + k]

\* an except branch that hands back the plan made so far
FailKeepsPlan(e) ==
  IF Catches(e)
  THEN /\ pc' = "failed"
       /\ result' = [SafeResult(query, e) EXCEPT !.plan = plan]
       /\ err' = e
  ELSE /\ pc' = "raised"
       /\ result' = result
       /\ err' = e

\* an exception reaches run's `except Exception as e`
Fail(e) ==
  IF Catches(e)
  THEN /\ pc' = "failed"
       /\ result' = SafeResult(query, e)
       /\ err' = e
  ELSE /\ pc' = "raised"
       /\ result' = result
       /\ err' = e

PlannerOutcomes ==
  IF agents = "outage" THEN {CreatePlan(query, CallRaises)}
  ELSE IF agents = "code" THEN {CreatePlan(query, r) : r \in RunPlanResponses}
  ELSE AnyPlans(query)

InsightOutcomes ==
  IF agents = "outage" THEN {GenerateInsights(query, FALSE, CallRaises)}
  ELSE IF agents = "code"
  THEN {GenerateInsights(query, TRUE, CallRaises)}
         \cup {GenerateInsights(query, FALSE, r) : r \in InsightResponses}
  ELSE AnyInsights

EvaluatorOutcomes(hypotheses) ==
  IF agents = "outage" THEN {Evaluate(hypotheses, FALSE, CallRaises)}
  ELSE IF agents = "code"
  THEN {Evaluate(hypotheses, TRUE, CallRaises)}
         \cup {Evaluate(hypotheses, FALSE, r) : r \in EvaluatorResponses}
  ELSE AnyEvaluations

CreativeOutcomes(insights_arg) ==
  IF agents = "outage"
  THEN {Generate(n, FALSE, insights_arg, CallRaises) : n \in 0..MaxCampaigns}
  ELSE IF agents = "code"
  THEN {Generate(0, TRUE, insights_arg, CallRaises)}
         \cup {Generate(n, FALSE, insights_arg, r) :
                 n \in 0..MaxCampaigns, r \in CreativeResponses}
  ELSE AnyCreatives

\* STEP 1 of run: create_plan and the fixes after it
Plan ==
  /\ pc = "plan"
  /\ \E out \in PlannerOutcomes :
       LET fixed == IF out.raised THEN out ELSE EnsurePlan(out.val, query) IN
       /\ Invoked("planner", out.calls)
       /\ IF fixed.raised
          THEN Fail(fixed.err) /\ plan' = plan
          ELSE pc' = "summarize" /\ plan' = fixed.val /\ UNCHANGED <<result, err>>
  /\ UNCHANGED <<agents, config, query, insights, validated_insights, refined_insights,
                 creatives, consulted, signal, reflection>>
  /\ UNCHANGED <<reevaluation, adapter_vars, main_vars>>

\* STEP 2 of run: DataAgent.analyze, which raises on data it cannot summarize
Summarize ==
  /\ pc = "summarize"
  /\ Invoked("data", 0)
  /\ \E fault \in BOOLEAN :
       IF fault THEN Fail("DataFault")
       ELSE pc' = "hypothesize" /\ UNCHANGED <<result, err>>
  /\ UNCHANGED <<agents, config, query, plan, insights, validated_insights,
                 refined_insights, creatives, consulted, signal, reflection>>
  /\ UNCHANGED <<reevaluation, adapter_vars, main_vars>>

\* STEP 3 of run: generate_insights and the fixes after it
Hypothesize ==
  /\ pc = "hypothesize"
  /\ \E out \in InsightOutcomes :
       LET fixed == IF out.raised THEN out ELSE EnsureInsights(out.val, query) IN
       /\ Invoked("insight", out.calls)
       /\ IF fixed.raised
          THEN Fail(fixed.err) /\ insights' = insights
          ELSE pc' = "evaluate" /\ insights' = fixed.val /\ UNCHANGED <<result, err>>
  /\ UNCHANGED <<agents, config, query, plan, validated_insights, refined_insights,
                 creatives, consulted, signal, reflection>>
  /\ UNCHANGED <<reevaluation, adapter_vars, main_vars>>

\* STEP 4 of run: evaluate and the fixes after it
EvaluateStep ==
  /\ pc = "evaluate"
  /\ \E out \in EvaluatorOutcomes(insights.hypotheses) :
       LET fixed == IF out.raised THEN out
                    ELSE EnsureValidated(out.val, insights.hypotheses) IN
       /\ Invoked("evaluator", out.calls)
       /\ IF fixed.raised
          THEN Fail(fixed.err) /\ validated_insights' = validated_insights
          ELSE /\ pc' = "gate"
               /\ validated_insights' = fixed.val
               /\ UNCHANGED <<result, err>>
  /\ insights' = PyNone
  /\ UNCHANGED <<agents, config, query, plan, refined_insights, creatives, consulted,
                 signal, reflection>>
  /\ UNCHANGED <<reevaluation, adapter_vars, main_vars>>

\* `if self._needs_reflection(validated_insights):`
Gate ==
  /\ pc = "gate"
  /\ consulted' = consulted + 1
  /\ LET g == NeedsReflection(config, validated_insights) IN
       IF g.raised
       THEN Fail(g.err) /\ signal' = signal
       ELSE /\ signal' = IF g.retry THEN "retry" ELSE "pass"
            /\ pc' = AfterGate(g.retry)
            /\ UNCHANGED <<result, err>>
  /\ UNCHANGED <<agents, config, query, plan, insights, validated_insights,
                 refined_insights, creatives, ran, generations, reflection>>
  /\ UNCHANGED <<reevaluation, adapter_vars, main_vars>>

\* an exception inside _reflection_loop's try
ReflectionRaised(e) ==
  IF ReflectionCatches(e)
  THEN /\ pc' = AfterReflection
       /\ reflection' = "kept"
       /\ UNCHANGED <<result, err>>
  ELSE Fail(e) /\ reflection' = reflection

\* _reflection_loop, first half: generate_insights with the previous attempt
Reflect ==
  /\ pc = "reflect"
  /\ \E out \in InsightOutcomes :
       /\ Invoked("insight", out.calls)
       /\ IF out.raised
          THEN ReflectionRaised(out.err) /\ refined_insights' = refined_insights
          ELSE /\ pc' = "reflect_evaluate"
               /\ refined_insights' = EnsureRefined(out.val)
               /\ UNCHANGED <<result, err, reflection>>
  /\ UNCHANGED <<agents, config, query, plan, insights, validated_insights, creatives,
                 consulted, signal>>
  /\ UNCHANGED <<reevaluation, adapter_vars, main_vars>>

\* _reflection_loop, second half: evaluate, the fixes, the return into run
ReflectEvaluate ==
  /\ pc = "reflect_evaluate"
  /\ \E out \in EvaluatorOutcomes(refined_insights.hypotheses) :
       /\ Invoked("evaluator", out.calls)
       /\ reevaluation' = [hypotheses |-> refined_insights.hypotheses, out |-> out]
       /\ validated_insights' =
            ReflectedEvaluation(validated_insights, refined_insights, out)
       /\ IF out.raised
          THEN ReflectionRaised(out.err)
          ELSE /\ pc' = AfterReflection
               /\ reflection' = IF ReflectionFailed(refined_insights, out)
                                THEN "kept" ELSE "replaced"
               /\ UNCHANGED <<result, err>>
  /\ refined_insights' = PyNone
  /\ UNCHANGED <<agents, config, query, plan, insights, creatives, consulted, signal>>
  /\ UNCHANGED <<adapter_vars, main_vars>>

\* STEP 5 of run: generate and the fixes after it
Recommend ==
  /\ pc = "recommend"
  /\ \E out \in CreativeOutcomes(validated_insights) :
       LET fixed == IF out.raised THEN out ELSE EnsureCreatives(out.val) IN
       /\ Invoked("creative", out.calls)
       /\ IF fixed.raised
          THEN Fail(fixed.err) /\ creatives' = creatives
          ELSE pc' = "report" /\ creatives' = fixed.val /\ UNCHANGED <<result, err>>
  /\ UNCHANGED <<agents, config, query, plan, insights, validated_insights,
                 refined_insights, consulted, signal, reflection>>
  /\ UNCHANGED <<reevaluation, adapter_vars, main_vars>>

\* STEP 6 of run: _create_report and the return
Report ==
  /\ pc = "report"
  /\ Invoked("report", 0)
  /\ LET report == CreateReport(query, validated_insights, creatives) IN
       IF report.raised
       THEN Fail(report.err)
       ELSE /\ pc' = "done"
            /\ result' = FullResult(validated_insights, creatives, report.val, plan)
            /\ err' = err
  /\ UNCHANGED <<agents, config, query, plan, insights, validated_insights,
                 refined_insights, creatives, consulted, signal, reflection>>
  /\ UNCHANGED <<reevaluation, adapter_vars, main_vars>>

Next ==
  \/ Plan
  \/ Summarize
  \/ Hypothesize
  \/ EvaluateStep
  \/ Gate
  \/ Reflect
  \/ ReflectEvaluate
  \/ Recommend
  \/ Report

Spec == Init /\ [][Next]_vars

\* a run whose stages are stand-ins: each call may raise or return a value of
\* any shape
LiveInit == Init /\ agents = "any"

\* run is one thread of straight-line code: as long as a statement is left
\* the next one is executed, and every call returns or raises
LiveSpec == LiveInit /\ [][Next]_vars /\ WF_vars(Next)

\* a run of the repository's adapters while the generation service is down:
\* every client.chat.completions.create raises
OutageInit ==
  /\ pc = "plan"
  /\ agents = "outage"
  /\ config \in Configs
  /\ query \in RunQueries
  /\ plan = PyNone
  /\ insights = PyNone
  /\ validated_insights = PyNone
  /\ refined_insights = PyNone
  /\ creatives = PyNone
  /\ result = PyNone
  /\ ran = [s \in Stages |-> 0]
  /\ generations = [s \in Stages |-> 0]
  /\ consulted = 0
  /\ signal = "none"
  /\ reflection = "none"
  /\ reevaluation = PyNone
  /\ err = ""
  /\ NoAdapter
  /\ NoMain

OutageSpec == OutageInit /\ [][Next]_vars

\* ------------------------------------- one adapter on one response text
LlmTask2 == Task("T2", "e", <<"ctr">>, "p")

\* a task object that brings only its description
BareTask(description) == [pytype |-> "dict", description |-> description]

\* a task object that brings its own identifier and nothing else
OwnIdTask(id) == [pytype |-> "dict", task_id |-> id, action |-> "a"]

WithSteps(l) == [pytype |-> "dict", steps |-> PyList(l)]

\* {"plan": P}
Wrapped(P) == [pytype |-> "dict", plan |-> P]

\* objects with a tasks array of two complete task objects
PlanObjects ==
  {WithTasks(PyList(<<LlmTask, LlmTask2>>)),
   WithTasks(PyList(<<LlmTask2, LlmTask>>)),
   [pytype |-> "dict", query |-> <<"q">>, intent |-> "i",
    tasks |-> PyList(<<LlmTask, LlmTask2>>), success_criteria |-> "c"]}

\* the task arrays a plan response may hold
TaskLists ==
  {<<>>, <<LlmTask>>, <<LlmTask, LlmTask>>, <<BareTask("a")>>,
   <<OwnIdTask("T2"), BareTask("b")>>, <<BareTask("a"), OwnIdTask("T1")>>,
   <<PyS("s"), PyS("t")>>, <<LlmTask, PyS("s")>>, <<PyNone>>, <<PyNone, LlmTask2>>,
   <<EmptyDict>>}

\* the bodies of the plan responses
PlanBodies ==
  PlanObjects
    \cup {WithTasks(PyList(l)) : l \in TaskLists}
    \cup {WithTasks(PyNone), WithTasks(PyText(1)), EmptyDict, PyList(<<>>), PyNone,
          PyList(<<WithTasks(PyList(<<LlmTask>>))>>), PyText(0), NotJson}
    \cup {WithSteps(<<PyS("Analyze ROAS"), PyS("Check CTR")>>),
          WithSteps(<<WithTasks(PyList(<<LlmTask, PyS("s")>>)),
                      WithTasks(PyList(<<OwnIdTask("T2")>>))>>),
          WithSteps(<<WithTasks(PyList(<<LlmTask>>)), PyNone>>),
          WithSteps(<<BareTask("a"), BareTask("b")>>),
          [pytype |-> "dict", actions |-> PyList(<<BareTask("a"), PyS("s")>>)]}
    \cup {Wrapped(P) : P \in PlanObjects}
    \cup {Wrapped(WithTasks(PyList(<<BareTask("a")>>))), Wrapped(EmptyDict),
          Wrapped(PyNone), Wrapped(Wrapped(WithTasks(PyList(<<LlmTask>>)))),
          Wrapped(Put(Wrapped(WithTasks(PyList(<<LlmTask>>))), "tasks", PyList(<<>>))),
          Wrapped(Put(Wrapped(WithTasks(PyList(<<LlmTask>>))), "tasks", PyText(1)))}

\* a response with every member the plan contract names
ValidPlanBody ==
  [pytype |-> "dict", query |-> <<"q">>, intent |-> "i",
   tasks |-> PyList(<<LlmTask, LlmTask2>>), success_criteria |-> "c"]

PlanResponses ==
  {CallRaises} \cup {Plain(b) : b \in PlanBodies}
    \cup UNION {Forms(Wrapped(P)) : P \in PlanObjects}
    \cup Forms(WithTasks(PyList(<<BareTask("a"), LlmTask2, LlmTask>>)))
    \cup Forms(WithSteps(<<PyS("Analyze ROAS"), PyS("Check CTR")>>))
    \cup Forms(ValidPlanBody)

Adapters == {"planner", "insight", "evaluator", "creative"}

\* the words of the queries create_plan is called with
QueryWords ==
  {"roas", "drop", "Drop", "dropped", "DECLINE", "decrease", "Improve", "increased",
   "optimize"}

\* the queries create_plan is called with: one or two words
PlannerQueries ==
  RunQueries \cup {<<w>> : w \in QueryWords} \cup {<<v, w>> : v, w \in QueryWords}

\* what an adapter is called with besides the query
Given(hypotheses, nLow) == [hypotheses |-> hypotheses, nLow |-> nLow]

\* json.dumps(plan): the plan as one JSON text, no fence and no prose
JsonDumps(v) == Plain(v)

AdapterInit ==
  /\ pc = "idle"
  /\ agents = "code"
  /\ config = EmptyDict
  /\ query \in PlannerQueries
  /\ plan = PyNone
  /\ insights = PyNone
  /\ validated_insights = PyNone
  /\ refined_insights = PyNone
  /\ creatives = PyNone
  /\ result = PyNone
  /\ ran = [s \in Stages |-> 0]
  /\ generations = [s \in Stages |-> 0]
  /\ consulted = 0
  /\ signal = "none"
  /\ reflection = "none"
  /\ reevaluation = PyNone
  /\ err = ""
  /\ NoMain
  /\ adapter \in Adapters
  /\ \/ /\ adapter = "planner"
        /\ query \in RunQueries
        /\ text \in PlanResponses
        /\ given = Given(PyNone, 0)
     \/ /\ adapter = "planner"
        /\ query \in PlannerQueries
        /\ text \in {CallRaises, Plain(NotJson), Plain(EmptyDict)}
        /\ given = Given(PyNone, 0)
     \/ /\ adapter = "insight"
        /\ query \in RunQueries
        /\ text \in InsightResponses
        /\ given = Given(PyNone, 0)
     \/ /\ adapter = "evaluator"
        /\ query \in RunQueries
        /\ text \in EvaluatorResponses
        /\ given \in {Given(PyList(l), 0) : l \in GoodLists}
     \/ /\ adapter = "creative"
        /\ query \in RunQueries
        /\ text \in CreativeResponses
        /\ given \in {Given(PyList(<<Hypothesis(Num(9, 10))>>), n) : n \in 0..MaxCampaigns}
  /\ normalized = PyNone
  /\ again = PyNone

\* PlannerAgent.create_plan(query, data_summary)
CallCreatePlan ==
  /\ adapter = "planner"
  /\ normalized = PyNone
  /\ normalized' = CreatePlan(query, text)
  /\ UNCHANGED <<run_vars, main_vars, adapter, text, given, again>>

\* create_plan again, its generation call returning the plan it made as text
CallCreatePlanAgain ==
  /\ adapter = "planner"
  /\ normalized # PyNone
  /\ ~normalized.raised
  /\ again = PyNone
  /\ again' = CreatePlan(query, JsonDumps(normalized.val))
  /\ UNCHANGED <<run_vars, main_vars, adapter, text, given, normalized>>

\* InsightAgent.generate_insights(query, data_summary, plan)
CallGenerateInsights ==
  /\ adapter = "insight"
  /\ normalized = PyNone
  /\ normalized' = GenerateInsights(query, FALSE, text)
  /\ UNCHANGED <<run_vars, main_vars, adapter, text, given, again>>

\* EvaluatorAgent.evaluate(hypotheses, data_summary)
CallEvaluate ==
  /\ adapter = "evaluator"
  /\ normalized = PyNone
  /\ normalized' = Evaluate(given.hypotheses, FALSE, text)
  /\ UNCHANGED <<run_vars, main_vars, adapter, text, given, again>>

\* CreativeGenerator.generate(data_summary, insights)
CallGenerate ==
  /\ adapter = "creative"
  /\ normalized = PyNone
  /\ normalized' = Generate(given.nLow, FALSE, WithHypotheses(given.hypotheses), text)
  /\ UNCHANGED <<run_vars, main_vars, adapter, text, given, again>>

AdapterNext ==
  \/ CallCreatePlan
  \/ CallCreatePlanAgain
  \/ CallGenerateInsights
  \/ CallEvaluate
  \/ CallGenerate

AdapterSpec == AdapterInit /\ [][AdapterNext]_vars

\* ------------------------------------------------------- main of run.py
\* the columns a dataset file may have
DatasetColumns == {"spend", "revenue", "roas", "ctr", "clicks", "impressions", "date"}

\* critical = ['spend', 'revenue', 'roas', 'ctr']
Critical == {"spend", "revenue", "roas", "ctr"}

\* what the dataset file is like when load opens it
Files == {"ok", "missing", "unreadable", "bad dates"}

\* a _validate that only warns about critical columns, as it does about the
\* configured ones
ValidateWarnOnly(cols) == Return(cols)

\* DataLoader._validate
Validate(cols) ==
  IF Critical \ cols # {} THEN Raise("ValueError") ELSE Return(cols)

\* DataLoader._clean: the date column is parsed, missing ctr and roas are
\* derived where their sources are there
Clean(cols, file) ==
  IF "date" \in cols /\ file = "bad dates" THEN Raise("DateParseError")
  ELSE Return(cols
         \cup (IF {"clicks", "impressions"} \subseteq cols THEN {"ctr"} ELSE {})
         \cup (IF {"revenue", "spend"} \subseteq cols THEN {"roas"} ELSE {}))

\* DataLoader.load
Load(cols, file) ==
  IF file = "missing" THEN Raise("FileNotFoundError")
  ELSE IF file = "unreadable" THEN Raise("ParserError")
  ELSE LET v == Validate(cols) IN
    IF v.raised THEN v ELSE Clean(v.val, file)

\* what AgenticWorkflow.run returns to main: a complete result or the
\* failure result
RunResults(q) ==
  {SafeResult(q, e) : e \in ExceptionKinds}
    \cup {FullResult(EvaluatorFallback(PyList(<<FallbackHypothesis>>)), CreativeFallback(n),
                     CreateReport(q, EvaluatorFallback(PyList(<<FallbackHypothesis>>)),
                                  CreativeFallback(n)).val,
                     FallbackPlan(q)) : n \in 0..MaxCampaigns}

MainInit ==
  /\ pc = "idle"
  /\ agents = "code"
  /\ config = EmptyDict
  /\ query \in RunQueries
  /\ plan = PyNone
  /\ insights = PyNone
  /\ validated_insights = PyNone
  /\ refined_insights = PyNone
  /\ creatives = PyNone
  /\ result = PyNone
  /\ ran = [s \in Stages |-> 0]
  /\ generations = [s \in Stages |-> 0]
  /\ consulted = 0
  /\ signal = "none"
  /\ reflection = "none"
  /\ reevaluation = PyNone
  /\ err = ""
  /\ NoAdapter
  /\ main_pc = "workflow"
  /\ columns \in SUBSET DatasetColumns
  /\ results = PyNone
  /\ written = {}
  /\ run_calls = 0
  /\ caught = ""
  /\ exit_status = -1

\* main's `except Exception as e`: return 1
MainFail(e) ==
  /\ main_pc' = "returned"
  /\ caught' = e
  /\ exit_status' = 1

\* workflow = AgenticWorkflow(config_path=args.config)
ConstructWorkflow ==
  /\ main_pc = "workflow"
  /\ \/ main_pc' = "loader" /\ UNCHANGED <<caught, exit_status>>
     \/ MainFail("ConfigError")
  /\ UNCHANGED <<run_vars, adapter_vars, columns, results, written, run_calls>>

\* data_loader = DataLoader(args.data_path)
ConstructDataLoader ==
  /\ main_pc = "loader"
  /\ \/ main_pc' = "load" /\ UNCHANGED <<caught, exit_status>>
     \/ MainFail("ConfigError")
  /\ UNCHANGED <<run_vars, adapter_vars, columns, results, written, run_calls>>

\* df = data_loader.load()
LoadData ==
  /\ main_pc = "load"
  /\ \E file \in Files :
       LET df == Load(columns, file) IN
       IF df.raised THEN MainFail(df.err)
       ELSE main_pc' = "run" /\ UNCHANGED <<caught, exit_status>>
  /\ UNCHANGED <<run_vars, adapter_vars, columns, results, written, run_calls>>

\* results = workflow.run(query=args.query, data=df)
RunWorkflow ==
  /\ main_pc = "run"
  /\ run_calls' = run_calls + 1
  /\ results' \in RunResults(query)
  /\ main_pc' = "mkdir"
  /\ UNCHANGED <<run_vars, adapter_vars, columns, written, caught, exit_status>>

\* output_dir.mkdir(parents=True, exist_ok=True)
MakeOutputDir ==
  /\ main_pc = "mkdir"
  /\ \/ main_pc' = "insights.json" /\ UNCHANGED <<caught, exit_status>>
     \/ MainFail("OSError")
  /\ UNCHANGED <<run_vars, adapter_vars, columns, results, written, run_calls>>

\* a main that returns 1 for the failure result of run
SaveReportsFailure(file, then) ==
  /\ main_pc = file
  /\ \/ /\ written' = written \cup {file}
        /\ IF then = "returned"
           THEN /\ main_pc' = "returned"
                /\ exit_status' = IF results.report.kind = "Analysis failed" THEN 1 ELSE 0
                /\ caught' = caught
           ELSE main_pc' = then /\ UNCHANGED <<caught, exit_status>>
     \/ /\ written' \in {written, written \cup {file}}
        /\ MainFail("OSError")
  /\ UNCHANGED <<run_vars, adapter_vars, columns, results, run_calls>>

\* one `with open(path, "w") as f:` block of main: the file is there once it
\* was opened, also when writing to it raised
Save(file, then) ==
  /\ main_pc = file
  /\ \/ /\ written' = written \cup {file}
        /\ IF then = "returned"
           THEN main_pc' = "returned" /\ exit_status' = 0 /\ caught' = caught
           ELSE main_pc' = then /\ UNCHANGED <<caught, exit_status>>
     \/ /\ written' \in {written, written \cup {file}}
        /\ MainFail("OSError")
  /\ UNCHANGED <<run_vars, adapter_vars, columns, results, run_calls>>

SaveInsights == Save("insights.json", "creatives.json")

SaveCreatives == Save("creatives.json", "report.md")

\* the report is written, the summary printed, and main returns 0
SaveReport == Save("report.md", "returned")

MainNext ==
  \/ ConstructWorkflow
  \/ ConstructDataLoader
  \/ LoadData
  \/ RunWorkflow
  \/ MakeOutputDir
  \/ SaveInsights
  \/ SaveCreatives
  \/ SaveReport

MainSpec == MainInit /\ [][MainNext]_vars

\* ================================= EvaluatorAgent._perform_quantitative_checks
\* |a|
AbsNum(a) == [n |-> IF a.n < 0 THEN 0 - a.n ELSE a.n, d |-> a.d]

\* a / b for b > 0
Ratio(a, b) == Num(a.n * b.d, a.d * b.n)

\* d.get(k, default)
Get(d, k, default) == IF k \in DOMAIN d THEN d[k] ELSE default

\* abs(pct) >= 10
SignificantAtLeast(pct) == AtLeast(AbsNum(pct), Num(10, 1))

\* abs(pct) > 10
Significant(pct) == Less(Num(10, 1), AbsNum(pct))

\* max(roas_values) / min(roas_values) if min(roas_values) > 0 else 1
CreativeVariance(by_type) ==
  LET roas_values == {Get(by_type.items[i], "roas", Zero) : i \in 1..PyLen(by_type)}
      max == CHOOSE v \in roas_values : \A w \in roas_values : AtLeast(v, w)
      min == CHOOSE v \in roas_values : \A w \in roas_values : AtLeast(w, v)
  IN IF Less(Zero, min) THEN Ratio(max, min) ELSE Num(1, 1)

\* the checks after the time-analysis block
TimeChecks(checks, data_summary) ==
  IF "time_analysis" \in DOMAIN data_summary
     /\ "changes" \in DOMAIN data_summary.time_analysis
  THEN LET changes == data_summary.time_analysis.changes IN
       Put(Put(checks, "significant_roas_change",
               Significant(Get(changes, "roas_change_pct", Zero))),
           "significant_ctr_change", Significant(Get(changes, "ctr_change_pct", Zero)))
  ELSE checks

\* the checks after the creative-analysis block
VarianceChecks(checks, data_summary) ==
  IF "creative_analysis" \in DOMAIN data_summary
     /\ "by_type" \in DOMAIN data_summary.creative_analysis
     /\ PyLen(data_summary.creative_analysis.by_type) > 1
  THEN Put(checks, "creative_variance",
           CreativeVariance(data_summary.creative_analysis.by_type))
  ELSE checks

\* the checks after the underperformers block
UnderChecks(checks, data_summary) ==
  IF "underperformers" \in DOMAIN data_summary
  THEN LET under == data_summary.underperformers IN
       Put(Put(checks, "has_low_ctr_campaigns", Get(under, "count_low_ctr", 0) > 0),
           "has_low_roas_campaigns", Get(under, "count_low_roas", 0) > 0)
  ELSE checks

\* _perform_quantitative_checks(data, data_summary); rows is len(data)
PerformQuantitativeChecks(rows, data_summary) ==
  UnderChecks(
    VarianceChecks(
      TimeChecks([pytype |-> "dict", sample_size_adequate |-> rows >= 30,
                  date_range_adequate |-> TRUE, metrics_complete |-> TRUE],
                 data_summary),
      data_summary),
    data_summary)

\* ------------------------------------------------ the summaries it is given
\* the percentage changes of the summary: -15, -10.1, -10, 0, 10, 10.1, 11
Percentages ==
  {Num(0 - 15, 1), Num(0 - 101, 10), Num(0 - 10, 1), Zero, Num(10, 1), Num(101, 10),
   Num(11, 1)}

\* data_summary["time_analysis"]["changes"]
ChangesDicts ==
  {EmptyDict}
    \cup {[pytype |-> "dict", roas_change_pct |-> p] : p \in Percentages}
    \cup {[pytype |-> "dict", ctr_change_pct |-> p] : p \in {Num(0 - 12, 1), Num(10, 1)}}
    \cup {[pytype |-> "dict", roas_change_pct |-> p, ctr_change_pct |-> q] :
            p \in Percentages, q \in {Num(0 - 12, 1), Num(10, 1)}}

\* data_summary["time_analysis"]: {} for a dataset without dates
TimeAnalyses ==
  {EmptyDict} \cup {[pytype |-> "dict", changes |-> c] : c \in ChangesDicts}

\* data_summary["underperformers"]
Underperformers ==
  {EmptyDict}
    \cup {[pytype |-> "dict", count_low_ctr |-> n] : n \in {0, 1, 5}}
    \cup {[pytype |-> "dict", count_low_roas |-> n] : n \in {0, 3}}
    \cup {[pytype |-> "dict", count_low_ctr |-> n, count_low_roas |-> m] :
            n \in {0, 1, 5}, m \in {0, 3}}

TypeStat(roas) == [pytype |-> "dict", creative_type |-> "Image", roas |-> roas]

\* data_summary["creative_analysis"]
CreativeAnalyses ==
  {EmptyDict}
    \cup {[pytype |-> "dict", by_type |-> PyList(l)] :
            l \in {<<TypeStat(Num(2, 1))>>, <<TypeStat(Num(2, 1)), TypeStat(Num(3, 1))>>,
                   <<TypeStat(Zero), TypeStat(Num(3, 1))>>,
                   <<[pytype |-> "dict", creative_type |-> "Video"], TypeStat(Num(3, 1))>>}}

\* the summary with each of its three parts present or absent
Summaries ==
  LET Part(k, S) == {EmptyDict} \cup {Put(EmptyDict, k, v) : v \in S}
  IN {t @@ c @@ u : t \in Part("time_analysis", TimeAnalyses),
                    c \in Part("creative_analysis", CreativeAnalyses),
                    u \in Part("underperformers", Underperformers)}

\* len(data)
RowCounts == {0, 29, 30, 31}

ChecksInit ==
  /\ pc = "idle"
  /\ agents = "code"
  /\ config = EmptyDict
  /\ query \in RunQueries
  /\ plan = PyNone
  /\ insights = PyNone
  /\ validated_insights = PyNone
  /\ refined_insights = PyNone
  /\ creatives = PyNone
  /\ result = PyNone
  /\ ran = [s \in Stages |-> 0]
  /\ generations = [s \in Stages |-> 0]
  /\ consulted = 0
  /\ signal = "none"
  /\ reflection = "none"
  /\ reevaluation = PyNone
  /\ err = ""
  /\ NoMain
  /\ adapter = "checks"
  /\ text = CallRaises
  /\ given \in {[rows |-> n, data_summary |-> s] : n \in RowCounts, s \in Summaries}
  /\ normalized = PyNone
  /\ again = PyNone

CallPerformQuantitativeChecks ==
  /\ adapter = "checks"
  /\ normalized = PyNone
  /\ normalized' = Return(PerformQuantitativeChecks(given.rows, given.data_summary))
  /\ UNCHANGED <<run_vars, main_vars, adapter, text, given, again>>

ChecksSpec == ChecksInit /\ [][CallPerformQuantitativeChecks]_vars

\* ================================================================ claims
Terminal == pc \in {"done", "failed"}

ResultMembers == {"plan", "insights", "creatives", "report"}

\* the confidences of a list of hypotheses
Confidences(v) == [i \in 1..PyLen(v) |-> v.items[i].confidence]

\* the arithmetic mean of the confidences of a non-empty list of hypotheses
\* that all carry a number
MeanOf(v) == Over(SumSeq(Confidences(v)), PyLen(v))

AllConfident(v) ==
  \A i \in 1..PyLen(v) :
    /\ IsDict(v.items[i])
    /\ "confidence" \in DOMAIN v.items[i]
    /\ IsNumber(v.items[i].confidence)

\* C1: run never lets an exception out and, whatever the stages return or
\* raise, returns a dict whose members are exactly plan, insights, creatives
\* and report; before it returns there is no result.
C1_AlwaysFourMembers ==
  /\ pc # "raised"
  /\ Terminal => IsDict(result) /\ Keys(result) = ResultMembers
  /\ ~Terminal => result = PyNone

\* a stand-in stage raised and run returned the four members all the same
C1_Witness ==
  /\ pc = "failed" /\ agents = "any" /\ err = "StageError"
  /\ Keys(result) = ResultMembers

\* C2: in one run generate_insights and evaluate are each invoked at most
\* twice, also when the confidence after the reflection is still low.
C2_BoundedRetry == ran["insight"] <= 2 /\ ran["evaluator"] <= 2

\* both ran twice and the reflected evaluation is still below the minimum
C2_Witness ==
  /\ pc = "done" /\ ran["insight"] = 2 /\ ran["evaluator"] = 2
  /\ reflection = "replaced"
  /\ Truthy(validated_insights.hypotheses)
  /\ Less(validated_insights.overall_confidence, MinConfidence(config))

\* C3: the gate is consulted once, after EVALUATE and before RECOMMEND, and
\* never again; a REFLECT pass runs once when it answered retry and not at
\* all when it did not.
C3_GateOnce ==
  /\ consulted <= 1
  /\ consulted = 1 => ran["evaluator"] >= 1
  /\ pc = "gate" => consulted = 0 /\ ran["evaluator"] = 1 /\ ran["creative"] = 0
  /\ (ran["creative"] >= 1 \/ pc \in {"recommend", "report", "done"}) => consulted = 1
  /\ reflection # "none" => signal = "retry"
  /\ pc \in {"reflect", "reflect_evaluate"} => signal = "retry" /\ consulted = 1
  /\ (pc \in {"recommend", "report", "done"} /\ signal = "retry") =>
       reflection \in {"kept", "replaced"} /\ ran["insight"] = 2
  /\ (pc \in {"recommend", "report", "done"} /\ signal = "pass") =>
       reflection = "none" /\ ran["insight"] = 1 /\ ran["evaluator"] = 1

\* a run that reflected once and one that did not, both done
C3_Witness ==
  /\ pc = "done" /\ consulted = 1 /\ signal = "retry" /\ reflection = "replaced"
  /\ ran["insight"] = 2 /\ ran["evaluator"] = 2

\* C4: the gate answers retry exactly when reflection is enabled (it is, when
\* the configuration does not say) and the hypotheses are empty or the
\* aggregate is strictly below min_confidence (0.6 when the configuration does
\* not say).  With the minimum at 0.6, confidences 0.9 and 0.3 (aggregate 0.6)
\* pass and 0.9 and 0.2 (aggregate 0.55) retry; with reflection disabled the
\* gate never answers retry.
C4_GateDecision ==
  (signal # "none" /\ reflection = "none") =>
    LET enabled == IF "reflection_enabled" \in DOMAIN config
                   THEN config.reflection_enabled ELSE TRUE
        minimum == IF "min_confidence" \in DOMAIN config
                   THEN config.min_confidence ELSE [n |-> 3, d |-> 5]
        hyps == validated_insights.hypotheses
        agg == validated_insights.overall_confidence
    IN /\ (signal = "retry") <=>
            (enabled /\ (PyLen(hyps) = 0 \/ agg.n * minimum.d < minimum.n * agg.d))
       /\ ~enabled => signal = "pass"
       /\ (enabled /\ minimum = [n |-> 3, d |-> 5] /\ PyLen(hyps) = 2
             /\ agg = [n |-> 3, d |-> 5]) => signal = "pass"
       /\ (enabled /\ minimum = [n |-> 3, d |-> 5] /\ PyLen(hyps) = 2
             /\ agg = [n |-> 11, d |-> 20]) => signal = "retry"

\* the gate passed confidences 0.9 and 0.3 at the default minimum: the
\* aggregate equals the minimum and is not below it
C4_Witness ==
  /\ signal = "pass" /\ reflection = "none" /\ config = EmptyDict
  /\ PyLen(validated_insights.hypotheses) = 2
  /\ AllConfident(validated_insights.hypotheses)
  /\ Confidences(validated_insights.hypotheses) = <<Num(9, 10), Num(3, 10)>>
  /\ validated_insights.overall_confidence = Num(6, 10)

\* C5, as the specification states it: the confidence the gate compares is
\* the mean of the hypotheses' confidences, whatever overall_confidence the
\* evaluation carries.
C5_GateRecomputesMean ==
  (pc = "gate" /\ agents = "code" /\ Truthy(validated_insights.hypotheses)
     /\ AllConfident(validated_insights.hypotheses)) =>
    GateConfidence(validated_insights).val = MeanOf(validated_insights.hypotheses)

\* C5, amended: an evaluation reaches the gate with an overall_confidence, and
\* that value is what the gate compares with the minimum; the mean is not
\* recomputed.  After the evaluator's fallback the value is 0.5 whatever the
\* confidences of the hypotheses are.
C5_GateUsesOverallConfidence ==
  LET v == validated_insights IN
  /\ pc = "gate" =>
       /\ "overall_confidence" \in DOMAIN v
       /\ (Truthy(v.hypotheses) /\ IsNumber(v.overall_confidence)) =>
            GateConfidence(v) = Return(v.overall_confidence)
  /\ (signal # "none" /\ reflection = "none" /\ ReflectionEnabled(config)
        /\ Truthy(v.hypotheses)) =>
       ((signal = "retry") <=> Less(v.overall_confidence, MinConfidence(config)))
  /\ (agents = "code" /\ pc = "gate" /\ "validation_summary" \in DOMAIN v
        /\ v.validation_summary = "Automated validation failed") =>
       v.overall_confidence = [n |-> 1, d |-> 2]

\* the gate retried at the default minimum on the fallback's 0.5 although the
\* one hypothesis has confidence 0.9
C5_Witness ==
  /\ agents = "code" /\ pc = "reflect" /\ signal = "retry" /\ config = EmptyDict
  /\ PyLen(validated_insights.hypotheses) = 1
  /\ AllConfident(validated_insights.hypotheses)
  /\ Confidences(validated_insights.hypotheses) = <<Num(9, 10)>>
  /\ validated_insights.overall_confidence = Num(1, 2)

EvaluatorReads(r) ==
  ~r.raises /\ r.damage = "none" /\ (r.fence \/ ~r.prose) /\ r.body # NotJson

ReflectionStepKeeps ==
  /\ pc' \in {"reflect", "reflect_evaluate", "recommend"}
  /\ result' = PyNone
  /\ (pc = "reflect" /\ pc' = "recommend") => reflection' = "kept"
  /\ (pc = "reflect_evaluate" /\ agents = "code"
        /\ generations'["evaluator"] = generations["evaluator"]) => reflection' = "kept"
  /\ reflection' = "kept" =>
       pc' = "recommend" /\ validated_insights' = validated_insights

\* C7: a REFLECT pass never ends in the failure result; when it fails (the
\* second generate_insights raises, the second evaluate raises or returns
\* no dict) run goes on to RECOMMEND with the evaluation it had before the
\* pass, unchanged, and that evaluation is the insights of the result.
C7_FailedReflectionKeepsEvaluation ==
  [][(pc \in {"reflect", "reflect_evaluate"}) => ReflectionStepKeeps]_vars

\* a run whose REFLECT pass failed and that is done, with the evaluation from
\* before the pass as its insights
C7_Witness ==
  /\ pc = "done" /\ reflection = "kept" /\ signal = "retry" /\ ran["insight"] = 2
  /\ result.insights = validated_insights

\* C8: the result of a failed run has no hypotheses, overall_confidence 0.0,
\* no recommendations, no tasks, the caller's query in its plan, and a report
\* that is the failure message with the error's text.
C8_SafeFailureResult ==
  pc = "failed" =>
    /\ result.insights.hypotheses = PyList(<<>>)
    /\ result.insights.overall_confidence = [n |-> 0, d |-> 1]
    /\ result.creatives.recommendations = PyList(<<>>)
    /\ result.plan.tasks = PyList(<<>>)
    /\ result.plan.query = query
    /\ result.report.pytype = "str"
    /\ result.report.kind = "Analysis failed"
    /\ result.report.error = err
    /\ err \in ExceptionKinds

\* a run failed after its plan had tasks and its evaluation had hypotheses
C8_Witness ==
  /\ pc = "failed" /\ ran["report"] = 1
  /\ PyLen(plan.tasks) > 0 /\ PyLen(validated_insights.hypotheses) > 0
  /\ PyLen(result.plan.tasks) = 0 /\ PyLen(result.insights.hypotheses) = 0

\* the contracts of the four stages
ValidTask(t) ==
  /\ IsDict(t)
  /\ {"task_id", "description", "data_requirements", "expected_output"} \subseteq DOMAIN t

ValidPlan(p) ==
  /\ IsDict(p)
  /\ {"query", "intent", "tasks", "success_criteria"} \subseteq DOMAIN p
  /\ IsList(p.tasks) /\ PyLen(p.tasks) > 0
  /\ \A i \in 1..PyLen(p.tasks) : ValidTask(p.tasks.items[i])
  /\ \A i, j \in 1..PyLen(p.tasks) :
       i # j => p.tasks.items[i].task_id # p.tasks.items[j].task_id

ValidHypothesis(h) ==
  /\ IsDict(h)
  /\ {"id", "hypothesis", "confidence", "evidence", "recommendation", "category"}
       \subseteq DOMAIN h
  /\ IsNumber(h.confidence) /\ ~Less(h.confidence, Zero) /\ ~Less(Num(1, 1), h.confidence)

ValidHypothesisSet(s) ==
  /\ IsDict(s)
  /\ {"timestamp", "query", "hypotheses", "reasoning"} \subseteq DOMAIN s
  /\ IsList(s.hypotheses)
  /\ \A i \in 1..PyLen(s.hypotheses) : ValidHypothesis(s.hypotheses.items[i])

ValidEvaluation(e) ==
  /\ IsDict(e)
  /\ {"hypotheses", "overall_confidence", "validation_summary"} \subseteq DOMAIN e
  /\ IsList(e.hypotheses)
  /\ \A i \in 1..PyLen(e.hypotheses) :
       /\ ValidHypothesis(e.hypotheses.items[i])
       /\ {"original_confidence", "validation"} \subseteq DOMAIN e.hypotheses.items[i]
  /\ PyLen(e.hypotheses) > 0 => e.overall_confidence = MeanOf(e.hypotheses)

ValidCreative(c) ==
  /\ IsDict(c)
  /\ {"headline", "message", "cta", "creative_type", "rationale", "inspiration"}
       \subseteq DOMAIN c

ValidCreativeSet(c) ==
  /\ IsDict(c)
  /\ {"timestamp", "recommendations"} \subseteq DOMAIN c
  /\ IsList(c.recommendations)
  /\ \A i \in 1..PyLen(c.recommendations) :
       LET rec == c.recommendations.items[i] IN
       /\ IsDict(rec)
       /\ {"campaign_name", "current_ctr", "current_message", "issue", "new_creatives"}
            \subseteq DOMAIN rec
       /\ IsList(rec.new_creatives)
       /\ \A k \in 1..PyLen(rec.new_creatives) : ValidCreative(rec.new_creatives.items[k])

\* what the planner, the insight agent and the creative generator return when
\* the generation call raises, at the step where run calls them
ThreeFallbacksValid ==
  /\ pc = "plan" =>
       LET out == CreatePlan(query, CallRaises) IN ~out.raised /\ ValidPlan(out.val)
  /\ pc \in {"hypothesize", "reflect"} =>
       LET out == GenerateInsights(query, FALSE, CallRaises) IN
       ~out.raised /\ ValidHypothesisSet(out.val)
  /\ pc = "recommend" =>
       \A n \in 0..MaxCampaigns :
         LET out == Generate(n, FALSE, validated_insights, CallRaises) IN
         ~out.raised => ValidCreativeSet(out.val)

\* the hypotheses evaluate is called with at the step run is at
Evaluated == IF pc = "evaluate" THEN insights.hypotheses ELSE refined_insights.hypotheses

\* C9, as the specification states it: when the generation call raises, each
\* of the four adapters returns a value of its stage's contract; for the
\* evaluator an Evaluation whose hypotheses carry original_confidence and a
\* validation record and whose overall_confidence is their mean.
C9_FallbacksMeetContracts ==
  (agents = "code") =>
    /\ ThreeFallbacksValid
    /\ pc \in {"evaluate", "reflect_evaluate"} =>
         LET out == Evaluate(Evaluated, FALSE, CallRaises) IN
         ~out.raised => ValidEvaluation(out.val)

\* C9, amended: when the generation call raises, the planner, the insight
\* agent and the creative generator return a Plan, a Hypothesis-Set and a
\* Creative-Set; the evaluator returns the hypotheses it was given, unchanged
\* (without original_confidence or validation record), with
\* overall_confidence 0.5 and a validation_summary.
C9_FallbacksAsBuilt ==
  (agents = "code") =>
    /\ ThreeFallbacksValid
    /\ pc \in {"evaluate", "reflect_evaluate"} =>
         LET out == Evaluate(Evaluated, FALSE, CallRaises) IN
         ~out.raised =>
           /\ Keys(out.val) = {"hypotheses", "overall_confidence", "validation_summary"}
           /\ out.val.hypotheses = Evaluated
           /\ out.val.overall_confidence = [n |-> 1, d |-> 2]
           /\ out.val.validation_summary = "Automated validation failed"

\* a run in which all four adapters fell back: the keyword plan, the one
\* technical hypothesis unchanged in the evaluation at 0.5, the fallback
\* creatives
C9_Witness ==
  /\ agents = "code" /\ pc = "done"
  /\ result.plan = FallbackPlan(query)
  /\ result.insights.hypotheses = PyList(<<FallbackHypothesis>>)
  /\ result.insights.overall_confidence = Num(1, 2)
  /\ result.insights.validation_summary = "Automated validation failed"
  /\ "note" \in DOMAIN result.creatives
  /\ result.creatives.note = "Fallback recommendations used"

\* C10, as the specification states it: with the repository's adapters, a
\* run ends in the failure result only on a fault of the data, never on what
\* a generation call returned or on a generation call that raised.
C10_GenerationNeverFailsRun ==
  (agents = "code" /\ pc = "failed") => err = "DataFault"

\* create_plan has returned
PlanReturned == adapter = "planner" /\ normalized # PyNone

\* a plan with a non-empty list of complete task objects and the three
\* other members
CompletePlan(p) ==
  /\ IsDict(p)
  /\ {"query", "intent", "tasks", "success_criteria"} \subseteq DOMAIN p
  /\ IsList(p.tasks) /\ PyLen(p.tasks) > 0
  /\ \A i \in 1..PyLen(p.tasks) : ValidTask(p.tasks.items[i])

\* C11, as the specification states it: whatever the response text and the
\* query, create_plan returns, and the plan it returns has a non-empty tasks
\* list of objects that each carry task_id, description, data_requirements
\* and expected_output, and has query, intent and success_criteria.
C11_ReturnedPlanComplete ==
  PlanReturned => ~normalized.raised /\ CompletePlan(normalized.val)

\* the task_ids of a plan's tasks are pairwise distinct
DistinctTaskIds(p) ==
  \A i, j \in 1..PyLen(p.tasks) :
    i # j => p.tasks.items[i].task_id # p.tasks.items[j].task_id

\* C12, as the specification states it: in every plan create_plan returns,
\* the task_ids are pairwise distinct, also where some tasks came with their
\* own task_id and others were given the positional T<n>.
C12_TaskIdsDistinct ==
  (PlanReturned /\ ~normalized.raised /\ CompletePlan(normalized.val))
    => DistinctTaskIds(normalized.val)

\* the response parses to an object without tasks whose steps are 2 strings
TwoStringSteps(r) ==
  /\ ~r.raises /\ r.damage = "none" /\ IsDict(r.body)
  /\ "tasks" \notin DOMAIN r.body /\ "steps" \in DOMAIN r.body
  /\ IsList(r.body.steps) /\ PyLen(r.body.steps) = 2
  /\ \A i \in 1..2 : IsStr(r.body.steps.items[i])

\* C13, as the specification states it (Scenario B): for a parseable response
\* without tasks whose steps are 2 plain strings, create_plan returns a plan
\* of exactly 2 tasks, T1 and T2, described by the two strings in order, each
\* with data_requirements [spend, revenue, roas], not the keyword plan.
C13_StepsOfStringsBecomeTasks ==
  (PlanReturned /\ TwoStringSteps(text)) =>
    /\ ~normalized.raised
    /\ normalized.val # FallbackPlan(query)
    /\ normalized.val.tasks =
         PyList([i \in 1..2 |-> StringTask(i, text.body.steps.items[i].text)])

\* the response parses to {"plan": P}, P an object whose tasks are 2 complete
\* task objects and that has no steps and no plan member of its own
WrappedTwoTasks(r) ==
  /\ ~r.raises /\ r.damage = "none" /\ IsDict(r.body)
  /\ Keys(r.body) = {"plan"} /\ IsDict(r.body.plan)
  /\ {"steps", "plan"} \cap DOMAIN r.body.plan = {}
  /\ "tasks" \in DOMAIN r.body.plan /\ IsList(r.body.plan.tasks)
  /\ PyLen(r.body.plan.tasks) = 2
  /\ \A i \in 1..2 : ValidTask(r.body.plan.tasks.items[i])

\* C14 (Scenario A): for a response {"plan": P}, P with a tasks array of 2
\* complete task objects, create_plan returns P unwrapped: no plan member at
\* the top, exactly those 2 tasks in their order, P's other members kept.
C14_WrappedPlanUnwrapped ==
  (PlanReturned /\ WrappedTwoTasks(text)) =>
    /\ ~normalized.raised
    /\ "plan" \notin DOMAIN normalized.val
    /\ normalized.val.tasks = text.body.plan.tasks
    /\ \A k \in DOMAIN text.body.plan : normalized.val[k] = text.body.plan[k]

\* a wrapped plan inside a code fence with prose around it, its two tasks in
\* the order T2, T1, came back unwrapped in that order
C14_Witness ==
  /\ PlanReturned /\ WrappedTwoTasks(text)
  /\ text.fence /\ text.prose
  /\ text.body.plan.tasks = PyList(<<LlmTask2, LlmTask>>)
  /\ normalized.val.tasks = PyList(<<LlmTask2, LlmTask>>)

\* generate_insights has returned
InsightsReturned == adapter = "insight" /\ normalized # PyNone

\* the response is text json.loads refuses: cut off or otherwise damaged, no
\* JSON at all, or JSON with prose around it and no code fence
InvalidText(r) ==
  ~r.raises /\ (r.damage # "none" \/ r.body = NotJson \/ (r.prose /\ ~r.fence))

\* the response is JSON for an empty value: null, {}, [] or ""
EmptyValueText(r) ==
  /\ ~r.raises /\ ~InvalidText(r)
  /\ r.body \in {PyNone, EmptyDict, PyList(<<>>), PyText(0)}

\* C15 (Scenario C): for a hypothesis response that cannot be parsed, or that
\* parses to an empty value, generate_insights returns a Hypothesis-Set for
\* the caller's query with exactly one hypothesis: H1, confidence 0.3,
\* category "technical".
C15_UnparsableGivesFallbackHypothesis ==
  (InsightsReturned /\ (InvalidText(text) \/ EmptyValueText(text))) =>
    /\ ~normalized.raised
    /\ ValidHypothesisSet(normalized.val)
    /\ normalized.val.query = query
    /\ PyLen(normalized.val.hypotheses) = 1
    /\ normalized.val.hypotheses.items[1].id = "H1"
    /\ normalized.val.hypotheses.items[1].confidence = Num(3, 10)
    /\ normalized.val.hypotheses.items[1].category = "technical"

\* a response cut off inside its code fence, and the response {}, each
\* brought the fallback hypothesis
C15_Witness ==
  /\ InsightsReturned
  /\ \/ text.damage = "broken" /\ text.fence
     \/ EmptyValueText(text) /\ text.body = EmptyDict
  /\ normalized.val = FallbackInsights(query)

\* the dataset lacks at least one of spend, revenue, roas, ctr
MissingCritical == main_pc # "idle" /\ Critical \ columns # {}

\* C16 (Scenario E): for a dataset that lacks one of spend, revenue, roas,
\* ctr, load raises whatever the file is like otherwise (ValueError from
\* _validate where the file can be read); main never gets past load, so it
\* never calls run, holds no Run Result, writes no output file, and where it
\* has returned it returned 1.
C16_MissingColumnStopsMain ==
  MissingCritical =>
    /\ \A file \in Files : Load(columns, file).raised
    /\ Load(columns, "ok").err = "ValueError"
    /\ main_pc \in {"workflow", "loader", "load", "returned"}
    /\ run_calls = 0
    /\ results = PyNone
    /\ written = {}
    /\ main_pc = "returned" => exit_status = 1

\* the dataset has every column but roas: load raised ValueError and main
\* returned 1
C16_Witness ==
  /\ columns = DatasetColumns \ {"roas"}
  /\ main_pc = "returned"
  /\ caught = "ValueError"
  /\ exit_status = 1
  /\ run_calls = 0 /\ written = {}

\* the value meets the contract of the adapter that returned it
MeetsContract(a, v) ==
  CASE a = "planner" -> ValidPlan(v)
    [] a = "insight" -> ValidHypothesisSet(v)
    [] a = "evaluator" -> ValidEvaluation(v)
    [] a = "creative" -> ValidCreativeSet(v)

\* the value is the fallback of the adapter that returned it
IsFallback(a, v) ==
  CASE a = "planner" -> v = FallbackPlan(query)
    [] a = "insight" -> v = FallbackInsights(query)
    [] a = "evaluator" -> v = EvaluatorFallback(given.hypotheses)
    [] a = "creative" -> v = CreativeFallback(given.nLow)

\* C17, as the specification states it: whatever the response text, each
\* adapter returns without raising, and what it returns either meets the
\* stage's contract or is the stage's fallback.
C17_TotalCoverage ==
  (adapter \in Adapters /\ normalized # PyNone) =>
    /\ ~normalized.raised
    /\ MeetsContract(adapter, normalized.val) \/ IsFallback(adapter, normalized.val)

\* the part of it that holds: no adapter raises on a response text
AdaptersNeverRaise ==
  (adapter \in Adapters /\ normalized # PyNone) => ~normalized.raised

\* create_plan returned a plan made from the response, not the fallback
NormalizedPlan ==
  PlanReturned /\ ~normalized.raised /\ normalized.val # FallbackPlan(query)

\* C18, as the specification states it: where create_plan returned a plan p
\* made from the response text, create_plan on the serialization of p
\* returns a plan equal to p.
C18_NormalizationIdempotent ==
  (NormalizedPlan /\ again # PyNone) => again.val = normalized.val

\* what holds of it: a returned plan that is complete comes back unchanged
IdempotentOnCompletePlans ==
  (NormalizedPlan /\ CompletePlan(normalized.val) /\ again # PyNone)
    => again.val = normalized.val

\* how often run has invoked a stage, all stages together
RECURSIVE SumRan(_)
SumRan(S) ==
  IF S = {} THEN 0 ELSE LET s == CHOOSE x \in S : TRUE IN ran[s] + SumRan(S \ {s})

\* run returned a Run Result
ReturnedResult ==
  /\ Terminal
  /\ IsDict(result) /\ Keys(result) = ResultMembers

\* six stages at most once each, but for the hypothesis and evaluation
\* stages, which the one reflection retry invokes once more
StageExecutionsBounded ==
  /\ SumRan(Stages) <= 8
  /\ \A s \in Stages : ran[s] <= (IF s \in {"insight", "evaluator"} THEN 2 ELSE 1)

\* C19: every call returning or raising, every run reaches DONE or the
\* failure result and returns a Run Result; on the way it invokes stages at
\* most 8 times, the hypothesis and evaluation stages at most twice each
\* (one reflection retry) and every other stage at most once.
C19_Termination == <>ReturnedResult /\ []StageExecutionsBounded

\* a run that made all 8 stage invocations, the retry among them, and
\* returned the complete result
C19_Witness ==
  /\ pc = "done"
  /\ SumRan(Stages) = 8
  /\ ran["insight"] = 2 /\ ran["evaluator"] = 2
  /\ ReturnedResult

\* the steps that may follow a step: the next one in the order PLAN,
\* SUMMARIZE, HYPOTHESIZE, EVALUATE, gate, optional REFLECT (its two calls),
\* RECOMMEND, REPORT, DONE, or the failure result; none after a return
StepsAfter(p) ==
  CASE p = "plan" -> {"summarize", "failed"}
    [] p = "summarize" -> {"hypothesize", "failed"}
    [] p = "hypothesize" -> {"evaluate", "failed"}
    [] p = "evaluate" -> {"gate", "failed"}
    [] p = "gate" -> {"reflect", "recommend", "failed"}
    [] p = "reflect" -> {"reflect_evaluate", "recommend"}
    [] p = "reflect_evaluate" -> {"recommend"}
    [] p = "recommend" -> {"report", "failed"}
    [] p = "report" -> {"done", "failed"}
    [] OTHER -> {}

\* the stage a step invokes
StageOf(p) ==
  CASE p = "plan" -> "planner"
    [] p = "summarize" -> "data"
    [] p \in {"hypothesize", "reflect"} -> "insight"
    [] p \in {"evaluate", "reflect_evaluate"} -> "evaluator"
    [] p = "recommend" -> "creative"
    [] p = "report" -> "report"

\* one step of run: it invokes the stage of the step it is at, once, and no
\* other (the gate invokes none), and goes to a step that may follow
StepInOrder ==
  /\ pc' \in StepsAfter(pc)
  /\ ran' = IF pc = "gate" THEN ran ELSE [ran EXCEPT ![StageOf(pc)] = @ + 1]

\* the stages that have been invoked are the ones before the step run is at,
\* each once, the hypothesis and evaluation stages twice after a REFLECT pass
StagesBefore(p) ==
  CASE p = "plan" -> {}
    [] p = "summarize" -> {"planner"}
    [] p = "hypothesize" -> {"planner", "data"}
    [] p = "evaluate" -> {"planner", "data", "insight"}
    [] p \in {"gate", "reflect", "reflect_evaluate", "recommend"} ->
         {"planner", "data", "insight", "evaluator"}
    [] p = "report" -> {"planner", "data", "insight", "evaluator", "creative"}
    [] p = "done" -> Stages
    [] OTHER -> {}

InvokedInOrder ==
  /\ \A s \in Stages : ran[s] <= (IF s \in {"insight", "evaluator"} THEN 2 ELSE 1)
  /\ ran["data"] <= ran["planner"] /\ ran["creative"] <= ran["evaluator"]
  /\ ran["report"] <= ran["creative"]
  /\ ran["evaluator"] <= ran["insight"] /\ ran["insight"] <= ran["evaluator"] + 1
  /\ ran["insight"] >= 1 => ran["data"] = 1
  /\ pc # "failed" => {s \in Stages : ran[s] >= 1} = StagesBefore(pc)
  /\ pc = "reflect" => ran["insight"] = 1 /\ ran["evaluator"] = 1
  /\ pc = "reflect_evaluate" => ran["insight"] = 2 /\ ran["evaluator"] = 1

\* the steps at which a stand-in stage is called: it may always raise
StageSteps == {"plan", "summarize", "hypothesize", "evaluate", "recommend"}

\* the failure result is one step away
CanFail == ENABLED (Next /\ pc' = "failed")

\* C20: steps follow each other only in the order PLAN, SUMMARIZE,
\* HYPOTHESIZE, EVALUATE, optional REFLECT, RECOMMEND, REPORT, DONE; a stage
\* is invoked only when the ones before it have completed; only the
\* hypothesis and evaluation stages are invoked twice; DONE and the failure
\* result are never left; and the failure result is one step away from every
\* step at which a stage is called that may raise (from inside REFLECT it is
\* reached through RECOMMEND).
C20_StagesInOrder ==
  /\ [][StepInOrder]_vars
  /\ []InvokedInOrder
  /\ []((agents = "any" /\ pc \in StageSteps) => CanFail)

\* a run that went through every step, the REFLECT pass among them, and
\* failed at the last one, REPORT
C20_Witness ==
  /\ pc = "failed"
  /\ \A s \in Stages : ran[s] = (IF s \in {"insight", "evaluator"} THEN 2 ELSE 1)
  /\ reflection # "none"

\* the words that hold 'drop', 'decline' or 'decrease', whatever their case
DropWords == {"drop", "Drop", "dropped", "DECLINE", "decrease"}

\* the words that hold 'improve', 'increase' or 'optimize'
OptimizeWords == {"Improve", "increased", "optimize", "increase"}

Mentions(q, words) == \E i \in 1..Len(q) : q[i] \in words

\* create_plan returned the fallback plan: the call raised, or the response
\* held no JSON or no tasks
FellBackToKeywords ==
  PlanReturned /\ (text.raises \/ text.body \in {NotJson, EmptyDict})

\* C21: the fallback plan goes by the keywords in the query, whatever their
\* case, in a fixed priority: 'drop', 'decline' or 'decrease' give
\* diagnose_drop with 3 tasks also when an optimization keyword is there too;
\* otherwise 'improve', 'increase' or 'optimize' give optimize_performance
\* with 2 tasks; otherwise general_analysis with 2 tasks.  The task_ids are
\* T1.. in order and the plan's query is the caller's.
C21_FallbackByKeyword ==
  FellBackToKeywords =>
    LET p == normalized.val
        n == PyLen(p.tasks)
    IN /\ p.query = query
       /\ \A i \in 1..n : p.tasks.items[i].task_id = TaskId(i)
       /\ <<p.intent, n>> =
            IF Mentions(query, DropWords) THEN <<"diagnose_drop", 3>>
            ELSE IF Mentions(query, OptimizeWords) THEN <<"optimize_performance", 2>>
            ELSE <<"general_analysis", 2>>

\* a query with an optimization keyword first and a capitalised drop keyword
\* after it got the three diagnose_drop tasks
C21_Witness ==
  /\ FellBackToKeywords /\ text.raises
  /\ query = <<"Improve", "Drop">>
  /\ normalized.val.intent = "diagnose_drop"
  /\ PyLen(normalized.val.tasks) = 3

\* the response text is an object meeting the stage's contract with prose
\* before or after it and no code fence, and the adapter made the call
ProseAroundValidObject ==
  /\ adapter \in Adapters /\ normalized # PyNone
  /\ ~text.raises /\ text.prose /\ ~text.fence /\ text.damage = "none"
  /\ text.body # NotJson
  /\ MeetsContract(adapter, text.body)
  /\ adapter = "creative" => given.nLow > 0

\* C22, as the specification states it: in every adapter an object meeting
\* the contract with prose around it and no code fence is normalized to that
\* object and is not replaced by the fallback.
C22_SlicingAtEveryStage ==
  ProseAroundValidObject =>
    /\ ~normalized.raised
    /\ normalized.val = text.body
    /\ ~IsFallback(adapter, normalized.val)

\* the part of it that holds: the planner slices
PlannerSlices ==
  (ProseAroundValidObject /\ adapter = "planner") =>
    /\ ~normalized.raised
    /\ normalized.val = text.body
    /\ ~IsFallback(adapter, normalized.val)

GenerateReturned == adapter = "creative" /\ normalized # PyNone

\* C23: with no low-CTR campaign generate returns a creative set with empty
\* recommendations and issues no generation call; it issues the call only
\* when there is at least one low-CTR campaign.
C23_NoLowCtrNoCall ==
  GenerateReturned =>
    /\ given.nLow = 0 =>
         /\ ~normalized.raised
         /\ ValidCreativeSet(normalized.val)
         /\ normalized.val.recommendations = PyList(<<>>)
         /\ normalized.calls = 0
    /\ normalized.calls > 0 => given.nLow > 0

\* no low-CTR campaign and a response at hand that holds a recommendation:
\* the response was never asked for
C23_Witness ==
  /\ GenerateReturned /\ given.nLow = 0
  /\ text = Plain(ValidCreativeBody)
  /\ normalized.calls = 0
  /\ normalized.val.recommendations = PyList(<<>>)

ChecksReturned == adapter = "checks" /\ normalized # PyNone

\* the summary carries time-analysis changes
CarriesChanges(s) ==
  "time_analysis" \in DOMAIN s /\ "changes" \in DOMAIN s.time_analysis

\* the named percentage change is there and is beyond 10 percent either way
Beyond10(s, k) ==
  /\ k \in DOMAIN s.time_analysis.changes
  /\ LET p == s.time_analysis.changes[k] IN p.n > 10 * p.d \/ p.n < 0 - 10 * p.d

\* the named count of underperformers is there and positive
Positive(s, k) == k \in DOMAIN s.underperformers /\ s.underperformers[k] > 0

\* C24: the checks always report sample_size_adequate, true exactly when the
\* dataset has at least 30 rows; they report significant_roas_change and
\* significant_ctr_change exactly when the summary carries time-analysis
\* changes, each true only when the change is beyond 10 percent strictly; they
\* report has_low_ctr_campaigns and has_low_roas_campaigns exactly when the
\* summary carries underperformers, each true only when its count is positive.
C24_QuantitativeChecks ==
  ChecksReturned =>
    LET checks == normalized.val
        s == given.data_summary
    IN /\ ~normalized.raised
       /\ "sample_size_adequate" \in DOMAIN checks
       /\ checks.sample_size_adequate = (given.rows >= 30)
       /\ \A k \in {"significant_roas_change", "significant_ctr_change"} :
            k \in DOMAIN checks <=> CarriesChanges(s)
       /\ CarriesChanges(s) =>
            /\ checks.significant_roas_change = Beyond10(s, "roas_change_pct")
            /\ checks.significant_ctr_change = Beyond10(s, "ctr_change_pct")
       /\ \A k \in {"has_low_ctr_campaigns", "has_low_roas_campaigns"} :
            k \in DOMAIN checks <=> "underperformers" \in DOMAIN s
       /\ "underperformers" \in DOMAIN s =>
            /\ checks.has_low_ctr_campaigns = Positive(s, "count_low_ctr")
            /\ checks.has_low_roas_campaigns = Positive(s, "count_low_roas")

\* 30 rows, a ROAS change of exactly 10 percent and a CTR change of -12
\* percent, one low-CTR campaign and no low-ROAS count
C24_Witness ==
  /\ ChecksReturned
  /\ given.rows = 30
  /\ CarriesChanges(given.data_summary)
  /\ given.data_summary.time_analysis.changes =
       [pytype |-> "dict", roas_change_pct |-> Num(10, 1), ctr_change_pct |-> Num(0 - 12, 1)]
  /\ "underperformers" \in DOMAIN given.data_summary
  /\ given.data_summary.underperformers = [pytype |-> "dict", count_low_ctr |-> 1]
  /\ normalized.val.sample_size_adequate
  /\ ~normalized.val.significant_roas_change
  /\ normalized.val.significant_ctr_change
  /\ normalized.val.has_low_ctr_campaigns
  /\ ~normalized.val.has_low_roas_campaigns

\* the REFLECT pass got as far as evaluate, and evaluate returned a dict
Reevaluated ==
  /\ reevaluation # PyNone
  /\ ~reevaluation.out.raised
  /\ IsDict(reevaluation.out.val)

\* the evaluation run holds is the one the second evaluate returned: every
\* member of that one is in it unchanged, and its hypotheses are that one's
\* or, when that one names none, the refined hypotheses it was made from
HoldsReevaluation(e) ==
  /\ IsDict(e)
  /\ \A k \in DOMAIN reevaluation.out.val : k \in DOMAIN e /\ e[k] = reevaluation.out.val[k]
  /\ "hypotheses" \in DOMAIN e
  /\ "hypotheses" \notin DOMAIN reevaluation.out.val =>
       e.hypotheses = reevaluation.hypotheses

\* the run's evaluation, and the insights of its result, after such a pass
ReevaluationReplaces ==
  /\ pc \in {"recommend", "report", "done"} => HoldsReevaluation(validated_insights)
  /\ pc = "done" => HoldsReevaluation(result.insights)

CompletionRaises ==
  FillOverall(SetDefault(reevaluation.out.val, "hypotheses", reevaluation.hypotheses)).raised

ReflectsBelowSixTenths ==
  /\ "reflection_enabled" \in DOMAIN config => config.reflection_enabled
  /\ "min_confidence" \in DOMAIN config => config.min_confidence = Num(6, 10)

\* what a done run returned while every generation call raised
OutageResult ==
  /\ signal = "retry" /\ reflection = "replaced"
  /\ ran["insight"] = 2 /\ ran["evaluator"] = 2
  /\ PyLen(result.insights.hypotheses) = 1
  /\ result.insights.hypotheses.items[1].id = "H1"
  /\ result.insights.hypotheses.items[1].confidence = Num(3, 10)
  /\ result.insights.overall_confidence = Num(1, 2)
  /\ IsList(result.plan.tasks) /\ PyLen(result.plan.tasks) > 0

CallsOf(s) == generations[s]

\* C27: one run issues at most six generation calls: one for the plan, at
\* most two for hypotheses, at most two for evaluations, at most one for
\* creatives; at most four when reflection is disabled; the data analysis and
\* the report issue none, and no stage issues more than one call per
\* invocation.
C27_AtMostSixGenerationCalls ==
  /\ CallsOf("planner") <= 1 /\ CallsOf("insight") <= 2
  /\ CallsOf("evaluator") <= 2 /\ CallsOf("creative") <= 1
  /\ CallsOf("data") = 0 /\ CallsOf("report") = 0
  /\ CallsOf("planner") + CallsOf("insight") + CallsOf("evaluator") + CallsOf("creative") <= 6
  /\ ~ReflectionEnabled(config) =>
       CallsOf("planner") + CallsOf("insight") + CallsOf("evaluator") + CallsOf("creative") <= 4
  /\ \A s \in Stages : CallsOf(s) <= ran[s]

\* a finished run of the repository's adapters that issued six calls
C27_Witness ==
  /\ pc = "done" /\ agents = "code"
  /\ CallsOf("planner") = 1 /\ CallsOf("insight") = 2
  /\ CallsOf("evaluator") = 2 /\ CallsOf("creative") = 1

\* the result is the complete one: every stage ran, and its members are the
\* plan, the evaluation and the creatives run holds and a rendered report
CompleteResult ==
  /\ pc = "done"
  /\ \A s \in Stages : ran[s] >= 1
  /\ DOMAIN result = ResultMembers \cup {"pytype"}
  /\ result.plan = plan
  /\ result.insights = validated_insights
  /\ result.creatives = creatives
  /\ result.report.kind # "Analysis failed"

\* the result is the fixed one of the except branch: nothing in it but the
\* query and the error's text comes from the run
FixedSafeResult ==
  /\ pc = "failed"
  /\ result =
       [pytype |-> "dict",
        insights |-> [pytype |-> "dict", hypotheses |-> PyList(<<>>),
                      overall_confidence |-> [n |-> 0, d |-> 1],
                      validation_summary |-> err],
        creatives |-> [pytype |-> "dict", recommendations |-> PyList(<<>>)],
        report |-> [pytype |-> "str", kind |-> "Analysis failed", error |-> err],
        plan |-> [pytype |-> "dict", tasks |-> PyList(<<>>), query |-> query]]

\* C28: a result of run is either the complete result of all stages or the
\* fixed safe result; the failure result carries no output of the stages that
\* had completed.
C28_NoPartialResult ==
  /\ result # PyNone => CompleteResult \/ FixedSafeResult
  /\ pc \in {"done", "failed"} => result # PyNone

\* a run failed in RECOMMEND, holding a plan with tasks and an evaluation
\* with hypotheses; its result has none of them
C28_Witness ==
  /\ FixedSafeResult
  /\ ran["creative"] = 1 /\ ran["report"] = 0
  /\ PyLen(plan.tasks) > 0 /\ PyLen(validated_insights.hypotheses) > 0
  /\ result.plan # plan /\ result.insights # validated_insights

\* the report renders the evaluation e: its findings are e's first hypotheses
Renders(report, e) ==
  IF HasLen(e.hypotheses)
  THEN /\ Len(report.findings) <= PyLen(e.hypotheses)
       /\ PyLen(e.hypotheses) > 0 => Len(report.findings) > 0
       /\ \A i \in 1..Len(report.findings) : report.findings[i] = e.hypotheses.items[i]
  ELSE report.findings = <<>>

\* the call of evaluate r returned a dict that was completed without raising
CompletedIn(r) ==
  /\ ~r.out.raised /\ IsDict(r.out.val)
  /\ ~FillOverall(SetDefault(r.out.val, "hypotheses", r.hypotheses)).raised

\* e is the evaluation that call returned, completed
HoldsEvaluationOf(r, e) ==
  /\ IsDict(e)
  /\ \A k \in DOMAIN r.out.val : k \in DOMAIN e /\ e[k] = r.out.val[k]
  /\ "hypotheses" \in DOMAIN e
  /\ "hypotheses" \notin DOMAIN r.out.val => e.hypotheses = r.hypotheses

\* what a step does to the evaluation run holds
StepHandsOnEvaluation ==
  \* where run enters RECOMMEND it holds the reflected evaluation when the
  \* REFLECT pass completed, else the one it had before
  /\ (pc \in {"gate", "reflect", "reflect_evaluate"} /\ pc' = "recommend") =>
       IF pc = "reflect_evaluate" /\ CompletedIn(reevaluation')
       THEN HoldsEvaluationOf(reevaluation', validated_insights')
       ELSE validated_insights' = validated_insights
  \* RECOMMEND and the report leave it as it is
  /\ pc \in {"recommend", "report"} => validated_insights' = validated_insights
  \* the result returns it and the report renders it
  /\ (pc = "report" /\ pc' = "done") =>
       /\ result'.insights = validated_insights
       /\ Renders(result'.report, validated_insights)
  \* RECOMMEND runs once, after the last evaluate
  /\ ran["creative"] = 1 =>
       ran'["insight"] = ran["insight"] /\ ran'["evaluator"] = ran["evaluator"]

\* C29: the evaluation RECOMMEND is given is the one the result returns as
\* its insights and the report renders: the reflected one when a REFLECT pass
\* completed, the one from before otherwise; no evaluation is made or
\* replaced after RECOMMEND ran.
C29_RecommendSeesFinalEvaluation == [][StepHandsOnEvaluation]_vars

\* a finished run of the repository's adapters whose REFLECT pass completed:
\* the reflected evaluation is in the result, rendered in the report, and
\* creatives were generated for it
C29_Witness ==
  /\ pc = "done" /\ agents = "code"
  /\ Reevaluated /\ ~CompletionRaises
  /\ result.insights = validated_insights
  /\ HoldsReevaluation(result.insights)
  /\ Len(result.report.findings) > 0
  /\ Renders(result.report, validated_insights)
  /\ PyLen(result.creatives.recommendations) > 0

Artifacts == {"insights.json", "creatives.json", "report.md"}

\* what DataLoader's construction and load, and the construction of the
\* workflow, raise
BeforeRunErrors ==
  {"ConfigError", "FileNotFoundError", "ParserError", "ValueError", "DateParseError"}

MainReturned == main_pc = "returned"

\* C30: main returns 0 with the three artifacts written whenever run returned
\* and no write raised, whatever run returned, the failure result included;
\* it returns 1 only when the construction of the workflow, the loading of the
\* data or the writing of the artifacts raised, and in the first two cases
\* run was not called and nothing is written.
C30_ExitStatus ==
  /\ MainReturned <=> exit_status \in {0, 1}
  /\ ~MainReturned => exit_status = 0 - 1
  /\ (MainReturned /\ results # PyNone /\ caught = "") =>
       exit_status = 0 /\ written = Artifacts
  /\ exit_status = 0 =>
       run_calls = 1 /\ results # PyNone /\ caught = "" /\ written = Artifacts
  /\ exit_status = 1 =>
       /\ caught \in BeforeRunErrors \cup {"OSError"}
       /\ caught \in BeforeRunErrors <=> results = PyNone
       /\ results = PyNone => run_calls = 0 /\ written = {}
       /\ results # PyNone => run_calls = 1

\* run returned the failure result and main wrote the three artifacts and
\* returned 0
C30_Witness ==
  /\ MainReturned /\ exit_status = 0
  /\ results.report.kind = "Analysis failed"
  /\ results.plan.tasks = PyList(<<>>)
  /\ written = Artifacts

====
